---- MODULE Spec2Model ----
(***************************************************************************)
(* A model of the Helm chart test orchestrator of brokkr                   *)
(* (.angreal/task_helm.py, .angreal/utils.py).                             *)
(*                                                                         *)
(* The orchestrator is one sequential Python process.  Each function that  *)
(* is verified gets its own specification over the variables it owns; the  *)
(* variables of the other functions stay at their idle values.             *)
(*   SpecPods : wait_for_pods (the readiness poller)                       *)
(*   SpecWO   : create_work_order, then wait_for_work_order_completion     *)
(*   SpecBroker : test_broker_chart (install, wait, probe, uninstall)      *)
(*   SpecRun  : test_helm_chart (provision, build, credential wait, tier,  *)
(*              report, teardown, exit status)                             *)
(*   SpecTier : the tier runners run_smoke_tests, run_full_tests,          *)
(*              run_shipwright_tests, run_legacy_tests, step by step       *)
(*   SpecAgent : test_agent_chart with create_agent_in_broker and the      *)
(*              lines both print                                           *)
(*   SpecName : generate_project_name and get_project_name, called any     *)
(*              number of times in one process                             *)
(*   SpecActivate : activate_agent (pod lookup, PUT, parse of the answer)  *)
(*   SpecTenant : test_broker_multi_tenant_schema (shared database, two    *)
(*              broker releases, four probes, cleanup)                     *)
(*   SpecPayload : the work-order payload of create_work_order:            *)
(*              json.dumps, encode, base64, echo and base64 -d in the pod  *)
(*   SpecE2E  : test_shipwright_e2e (create agent, install, wait, locate,  *)
(*              activate, submit the work order, await it, cleanup)        *)
(*   SpecValuesFile : test_agent_with_values_file (create agent, install   *)
(*              with a values file, wait, cleanup)                         *)
(*   SpecAgentInstalls : the three scenarios that install the agent chart  *)
(*              (SpecAgent, SpecValuesFile, SpecE2E), any one of them      *)
(*   SpecIdentity : the callers of get_project_name, by themselves         *)
(*              (SpecName) or within a run of test_helm_chart (SpecRun)    *)
(*   SpecHealth : the two scenarios that probe health endpoints            *)
(*              (SpecBroker, SpecTenant), any one of them                  *)
(*   SpecWaits : the three polling waits (SpecPods, SpecWO, and the        *)
(*              credential wait inside SpecRun), any one of them, with     *)
(*              every external command returning                           *)
(*   SpecBrokerValues : test_broker_with_values_file (install with a       *)
(*              values file, wait, cleanup)                                *)
(*   SpecScenarios : the six scenario functions (SpecBroker, SpecTenant,   *)
(*              SpecAgent, SpecBrokerValues, SpecValuesFile, SpecE2E),     *)
(*              any one of them                                            *)
(* Two small HTTP services of the repository are modelled as well:         *)
(*   SpecCatcher : examples/webhook-catcher/main.py, the POST, DELETE and  *)
(*              GET /messages handlers run by concurrent threads           *)
(*   SpecTool : tools/webhook-catcher/app.py, the /receive, /clear and     *)
(*              /stats views, one request after the other                  *)
(* Time is counted in whole seconds since the function's start_time.  An   *)
(* external command (docker run ...) takes between 0 and MaxCmdDur         *)
(* seconds; time.sleep(n) takes n seconds.                                 *)
(***************************************************************************)
EXTENDS Integers, Sequences, FiniteSets, TLC

(***************************************************************************)
(* Bounds of the model.                                                    *)
(***************************************************************************)
MaxPods == 2        \* pods matched by a release selector in one snapshot
MaxCmdDur == 1      \* seconds one external command may take
MaxTimeout == 7     \* largest timeout argument given to wait_for_pods
MaxWoTimeout == 21  \* largest timeout argument given to
                    \* wait_for_work_order_completion besides the scenario's
MaxPollIdx == 12    \* largest poll_idx for which sleep_time is evaluated

VARIABLES
    \* ---- wait_for_pods ----
    wp_pc,          \* "idle" | "loop" (at the while test) | "decide" | "done"
    wp_timeout,     \* the timeout argument
    wp_elapsed,     \* time.time() - start_time
    wp_tickStart,   \* elapsed time at which the current tick passed the while test
    wp_ticks,       \* poll ticks completed without returning
    wp_rc,          \* result.returncode of the tick's status query
    wp_stdout,      \* result.stdout of the tick's status query
    wp_pods,        \* the pods the cluster reported to that query
    wp_seen,        \* kinds of observation made by the ticks run so far
    wp_diag,        \* diagnostic commands run so far
    wp_result,      \* return value: "none" until the call returns
    \* ---- create_work_order / wait_for_work_order_completion ----
    wo_pc,          \* "idle" | "create" | "wait" | "loop" | "log" | "done"
    wo_agent_id,    \* agent_id argument of create_work_order
    wo_payload,     \* the JSON payload posted by create_work_order
    wo_id,          \* work_order_id returned by create_work_order
    wo_timeout,     \* the timeout argument of the wait
    wo_elapsed,     \* time.time() - start_time
    wo_tickStart,   \* elapsed time at which the current tick passed the while test
    wo_ticks,       \* poll ticks completed without returning
    wo_broker_pod,  \* broker_pod: "" before the lookup, None if it failed
    wo_resp,        \* result of the tick's completion-log query
    wo_queries,     \* endpoints queried so far by the current tick
    wo_status,      \* the status the last tick printed from the live work
                    \* order ("none" if it printed none)
    wo_raised,      \* exception raised by the wait, "none" if none
    wo_result,      \* return value of the wait: "none" until it returns
    \* ---- test_broker_chart and the cluster it acts on ----
    bc_pc,          \* "idle" | "start" | "install" | "wait" | "health" |
                    \* "readyz" | "finally" | "done"
    bc_no_cleanup,  \* the no_cleanup argument
    bc_test_external_db,      \* the test_external_db argument
    bc_external_db_release,   \* external_db_release: None or the name
    bc_values,      \* the values dict handed to helm_install
    bc_health_passed,         \* health_passed
    bc_ready,       \* the releases wait_for_pods returned True for
    bc_probes,      \* the validate_health_endpoint calls made, in order
    bc_ret,         \* value of the return statement being executed
    bc_result,      \* value the call returned: "none" until it returns
    helm_releases,  \* releases installed in the namespace (cluster state)
    k8s_objects,    \* deployments applied with kubectl (cluster state)
    helm_log,       \* helm commands issued, each with its outcome
    \* ---- test_helm_chart, the docker host and the credential wait ----
    run_pc,         \* "idle" | "start" | "ensure" | "build" | "verify" |
                    \* "nodes" | "tier" | "report" | "except" | "exit"
    run_tier,       \* the tier argument
    run_no_cleanup, \* the no_cleanup argument
    PROJECT_NAME,   \* the global _PROJECT_NAME: None until first asked for
    run_results,    \* results: the (test_name, success) list of the tier
    run_tier_ran,   \* whether a tier runner has been called
    run_raised,     \* message of the Exception raised in the try block,
                    \* "none" when there is none
    run_exit,       \* exit status of the process, -1 while it runs
    docker,         \* docker host: projects with containers, their volumes
    docker_log,     \* docker compose / volume commands issued, in order
    build_log,      \* docker build / docker push commands issued, in order,
                    \* each with whether it returned 0
    kc_elapsed,     \* time.time() - start_time in verify_kubectl_connectivity
    kc_poll_idx,    \* poll_idx
    kc_probes,      \* number of "test -f" probes issued
    kc_lastProbeStart,  \* elapsed time at which the last probe started
    kc_sleeps,      \* the sleep_time values slept so far, in order
    kc_found,       \* whether a probe found kubeconfig.docker.yaml
    kc_appear,      \* second after start_time at which the one-shot export
                    \* step writes the kubeconfig; -1 if it does not within
                    \* the wait
    \* ---- the tier runners ----
    tr_pc,          \* "idle" | the statement the runner is at | "done"
    tr_tier,        \* the tier test_helm_chart dispatches on
    tr_no_cleanup,  \* the no_cleanup argument of the runner
    tr_results,     \* results
    tr_broker,      \* broker_release_name: None or the release name
    tr_idx,         \* position in the list a for loop goes through
    tr_pre_failed,  \* whether a helm_uninstall of the pre-cleanup failed
    tr_events,      \* uninstalls, template runs, deployments and scenario
                    \* calls made so far, in order
    \* ---- test_agent_chart ----
    ag_pc,          \* "idle" | "create" | "install" | "verify" | "finally" | "done"
    ag_rbac_mode,   \* the rbac_mode argument
    ag_no_cleanup,  \* the no_cleanup argument
    ag_rc_ok,       \* result.returncode == 0 of the agent creation command
    ag_stdout,      \* result.stdout of the agent creation command
    ag_pak,         \* pak: what create_agent_in_broker returned (<<>> for None)
    ag_raised,      \* whether an exception is propagating out of the scenario
    ag_out,         \* the lines printed so far
    ag_helm_log,    \* the helm and kubectl commands run so far
    ag_releases,    \* the Helm releases installed in the cluster
    ag_ret,         \* the value of the pending return statement
    ag_result,      \* what test_agent_chart returned ("none" before that)
    ag_calls,       \* the calls of create_agent_in_broker and helm_install
                    \* and the verification commands, in order
    ag_roles,       \* the RBAC objects labelled with the agent release
    \* ---- generate_project_name, get_project_name ----
    nm_pc,          \* "idle" | "run" (the process is alive)
    nm_global,      \* the global _PROJECT_NAME of this process
    nm_generated,   \* what generate_project_name drew and returned, in order
    nm_returned,    \* what the callers of get_project_name were given, in order
    \* ---- activate_agent ----
    aa_pc,          \* "idle" | "lookup" | "put" | "done"
    aa_agent_id,    \* the agent_id argument
    aa_lookup,      \* result of the broker pod lookup
    aa_put,         \* result of the PUT command
    aa_cmds,        \* the commands run so far
    aa_result,      \* "none" | "True" | "False" (returned) | "raised"
    \* ---- test_broker_multi_tenant_schema ----
    mt_pc,          \* "idle" | the statement the scenario is at | "done"
    mt_no_cleanup,  \* the no_cleanup argument
    mt_objects,     \* the shared PostgreSQL and the schemas that exist
    mt_releases,    \* the Helm releases installed in the cluster
    mt_installs,    \* the helm_install calls made: release, values, outcome
    mt_ready,       \* the releases wait_for_pods found ready
    mt_probes,      \* the calls of validate_health_endpoint: service,
                    \* path, exit code, commands run, value returned
    mt_health_passed, \* health_passed
    mt_log,         \* the helm and kubectl commands run so far
    mt_ret,         \* the value of the pending return statement
    mt_result,      \* what the scenario returned ("none" before that)
    \* ---- the work-order payload on its way through the shell ----
    pl_pc,          \* "idle" | "dumps" | "encode" | "send" | "done"
    pl_yaml_content, \* the yaml_content argument, as code points
    pl_payload,     \* payload: the JSON text, as code points
    pl_bytes,       \* payload.encode()
    pl_payload_b64, \* payload_b64, as characters
    pl_decoded,     \* the bytes base64 -d hands to curl
    \* --- test_shipwright_e2e ---
    e2_pc,          \* "idle" | "create" | "install" | "wait" | "components"
                    \* | "locate" | "activate" | "submit" | "await"
                    \* | "finally" | "done"
    e2_no_cleanup,  \* the no_cleanup argument
    e2_broker,      \* the broker_release_name argument (PyNone by default)
    e2_steps,       \* the workflow steps called so far, in order
    e2_cmds,        \* the other commands run so far, in order
    e2_pak,         \* pak
    e2_agent_id,    \* agent_id
    e2_wo_id,       \* work_order_id
    e2_releases,    \* Helm releases the cluster holds
    e2_raised,      \* an exception is on its way out of the try block
    e2_ret,         \* the value of the pending return statement
    e2_result,      \* "none" | "True" | "False" | "raised"
    \* --- test_agent_with_values_file ---
    vf_pc,          \* "idle" | "create" | "install" | "wait" | "finally" | "done"
    vf_no_cleanup,  \* the no_cleanup argument
    vf_name,        \* the values_file_name argument
    vf_pak,         \* pak
    vf_calls,       \* the calls made so far, in order
    vf_releases,    \* Helm releases the cluster holds
    vf_raised,      \* an exception is on its way out of the try block
    vf_ret,         \* the value of the pending return statement
    vf_result,      \* "none" | "True" | "False" | "raised"
    \* --- test_broker_with_values_file ---
    bv_pc,          \* "idle" | "install" | "wait" | "finally" | "done"
    bv_no_cleanup,  \* the no_cleanup argument
    bv_name,        \* the values_file_name argument
    bv_calls,       \* the calls made so far, in order
    bv_releases,    \* Helm releases the cluster holds
    bv_ret,         \* the value of the pending return statement
    bv_result,      \* "none" | "True" | "False"
    \* --- examples/webhook-catcher/main.py ---
    messages,       \* the in-memory message store (ids and paths, oldest first)
    counter,        \* the global counter
    lock,           \* the thread that holds lock, 0 when it is free
    wc_pc,          \* per handler thread: "off" | "idle" | "lock" | "load" |
                    \* "store" | "msg" | "append" | "trim" | "respond" | "clear"
    wc_req,         \* per thread: the request it handles (method, path)
    wc_tmp,         \* per thread: the value of counter loaded by counter += 1
    wc_msg,         \* per thread: the id of the msg it built
    wc_assigned,    \* every id given to a msg so far, in the order given
    wc_started,     \* requests accepted so far
    wc_resp,        \* per thread: the last response sent (status, kind, val)
    wc_seen,        \* the count the last GET /messages reported
    \* --- tools/webhook-catcher/app.py ---
    received_messages, \* the stored messages (their ids), newest first
    wt_pc,          \* "off" | "serving"
    wt_resp         \* the last response sent (status, kind, val)

podVars == <<wp_pc, wp_timeout, wp_elapsed, wp_tickStart, wp_ticks, wp_rc,
             wp_stdout, wp_pods, wp_seen, wp_diag, wp_result>>

woVars == <<wo_pc, wo_agent_id, wo_payload, wo_id, wo_timeout, wo_elapsed,
            wo_tickStart, wo_ticks, wo_broker_pod, wo_resp, wo_queries,
            wo_status, wo_raised, wo_result>>

bcVars == <<bc_pc, bc_no_cleanup, bc_test_external_db, bc_external_db_release,
            bc_values, bc_health_passed, bc_ready, bc_probes, bc_ret, bc_result,
            helm_releases, k8s_objects, helm_log>>

runVars == <<run_pc, run_tier, run_no_cleanup, PROJECT_NAME, run_results,
             run_tier_ran, run_raised, run_exit, docker, docker_log,
             build_log, kc_elapsed, kc_poll_idx, kc_probes, kc_lastProbeStart, kc_sleeps,
             kc_found, kc_appear>>

trVars == <<tr_pc, tr_tier, tr_no_cleanup, tr_results, tr_broker, tr_idx,
            tr_pre_failed, tr_events>>

agVars == <<ag_pc, ag_rbac_mode, ag_no_cleanup, ag_rc_ok, ag_stdout, ag_pak,
             ag_raised, ag_out, ag_helm_log, ag_releases, ag_ret, ag_result,
             ag_calls, ag_roles>>

nmVars == <<nm_pc, nm_global, nm_generated, nm_returned>>

aaVars == <<aa_pc, aa_agent_id, aa_lookup, aa_put, aa_cmds, aa_result>>

mtVars == <<mt_pc, mt_no_cleanup, mt_objects, mt_releases, mt_installs,
             mt_ready, mt_probes, mt_health_passed, mt_log, mt_ret,
             mt_result>>

plVars == <<pl_pc, pl_yaml_content, pl_payload, pl_bytes, pl_payload_b64,
             pl_decoded>>

e2Vars == <<e2_pc, e2_no_cleanup, e2_broker, e2_steps, e2_cmds, e2_pak,
             e2_agent_id, e2_wo_id, e2_releases, e2_raised, e2_ret,
             e2_result>>

vfVars == <<vf_pc, vf_no_cleanup, vf_name, vf_pak, vf_calls, vf_releases,
             vf_raised, vf_ret, vf_result>>

bvVars == <<bv_pc, bv_no_cleanup, bv_name, bv_calls, bv_releases, bv_ret,
             bv_result>>

wcVars == <<messages, counter, lock, wc_pc, wc_req, wc_tmp, wc_msg,
             wc_assigned, wc_started, wc_resp, wc_seen>>

wtVars == <<received_messages, wt_pc, wt_resp>>

vars == <<podVars, woVars, bcVars, runVars, trVars, agVars, nmVars, aaVars, mtVars, plVars, e2Vars, vfVars, bvVars, wcVars, wtVars>>

\* what each function leaves alone: the variables of the others
notPodVars == <<woVars, bcVars, runVars, trVars, agVars, nmVars, aaVars, mtVars, plVars, e2Vars, vfVars, bvVars, wcVars, wtVars>>
notWoVars == <<podVars, bcVars, runVars, trVars, agVars, nmVars, aaVars, mtVars, plVars, e2Vars, vfVars, bvVars, wcVars, wtVars>>
notBcVars == <<podVars, woVars, runVars, trVars, agVars, nmVars, aaVars, mtVars, plVars, e2Vars, vfVars, bvVars, wcVars, wtVars>>
notRunVars == <<podVars, woVars, bcVars, trVars, agVars, nmVars, aaVars, mtVars, plVars, e2Vars, vfVars, bvVars, wcVars, wtVars>>
notTrVars == <<podVars, woVars, bcVars, runVars, agVars, nmVars, aaVars, mtVars, plVars, e2Vars, vfVars, bvVars, wcVars, wtVars>>
notAgVars == <<podVars, woVars, bcVars, runVars, trVars, nmVars, aaVars, mtVars, plVars, e2Vars, vfVars, bvVars, wcVars, wtVars>>
notNmVars == <<podVars, woVars, bcVars, runVars, trVars, agVars, aaVars, mtVars, plVars, e2Vars, vfVars, bvVars, wcVars, wtVars>>
notAaVars == <<podVars, woVars, bcVars, runVars, trVars, agVars, nmVars, mtVars, plVars, e2Vars, vfVars, bvVars, wcVars, wtVars>>
notMtVars == <<podVars, woVars, bcVars, runVars, trVars, agVars, nmVars, aaVars, plVars, e2Vars, vfVars, bvVars, wcVars, wtVars>>
notPlVars == <<podVars, woVars, bcVars, runVars, trVars, agVars, nmVars, aaVars, mtVars, e2Vars, vfVars, bvVars, wcVars, wtVars>>
notE2Vars == <<podVars, woVars, bcVars, runVars, trVars, agVars, nmVars, aaVars, mtVars, plVars, vfVars, bvVars, wcVars, wtVars>>
notVfVars == <<podVars, woVars, bcVars, runVars, trVars, agVars, nmVars, aaVars, mtVars, plVars, e2Vars, bvVars, wcVars, wtVars>>
notBvVars == <<podVars, woVars, bcVars, runVars, trVars, agVars, nmVars, aaVars, mtVars, plVars, e2Vars, vfVars, wcVars, wtVars>>
notWcVars == <<podVars, woVars, bcVars, runVars, trVars, agVars, nmVars, aaVars, mtVars, plVars, e2Vars, vfVars, bvVars, wtVars>>
notWtVars == <<podVars, woVars, bcVars, runVars, trVars, agVars, nmVars, aaVars, mtVars, plVars, e2Vars, vfVars, bvVars, wcVars>>

(***************************************************************************)
(* Helpers on sequences (Python str operations on the command output).     *)
(* A string is a sequence of atoms: a field value, ":" or " ".  No field   *)
(* value of the modelled domain contains another one, ":" or a blank, so   *)
(* `x in s` on the Python string is an infix test on the atoms.            *)
(***************************************************************************)
SeqsUpTo(S, n) == UNION {[1..k -> S] : k \in 0..n}

RECURSIVE Flatten(_)
Flatten(ss) == IF ss = <<>> THEN <<>> ELSE Head(ss) \o Flatten(Tail(ss))

\* needle in hay
IsInfix(needle, hay) ==
    \E i \in 0..(Len(hay) - Len(needle)) :
        \A j \in 1..Len(needle) : hay[i + j] = needle[j]

\* str.split(): the maximal blank-free runs, in order.  (A leading strip()
\* changes nothing for split(), which drops empty fields itself.)
RECURSIVE SplitFrom(_, _, _)
SplitFrom(s, cur, acc) ==
    IF s = <<>>
    THEN IF cur = <<>> THEN acc ELSE Append(acc, cur)
    ELSE IF Head(s) = " "
         THEN SplitFrom(Tail(s), <<>>, IF cur = <<>> THEN acc ELSE Append(acc, cur))
         ELSE SplitFrom(Tail(s), Append(cur, Head(s)), acc)

split(s) == SplitFrom(s, <<>>, <<>>)

\* str.strip(): leading and trailing blanks removed.
RECURSIVE lstrip(_)
lstrip(s) == IF s # <<>> /\ Head(s) = " " THEN lstrip(Tail(s)) ELSE s

RECURSIVE rstrip(_)
rstrip(s) ==
    IF s # <<>> /\ s[Len(s)] = " " THEN rstrip(SubSeq(s, 1, Len(s) - 1)) ELSE s

strip(s) == rstrip(lstrip(s))

(***************************************************************************)
(* The cluster's answer to the status query of wait_for_pods.              *)
(***************************************************************************)
\* A pod as the API server reports it: phase, the status of its Ready
\* condition ("" while the pod has none) and, per container status, the
\* waiting reason ("" for a container that is not waiting).  A pod is Ready
\* only when it is Running and none of its containers waits.
Pod(phase, ready, reasons) == [phase |-> phase, ready |-> ready, reasons |-> reasons]

PodStates ==
    { Pod("Pending", "", <<>>),
      Pod("Pending", "False", <<"ContainerCreating">>),
      Pod("Pending", "False", <<"ImagePullBackOff">>),
      Pod("Pending", "False", <<"ErrImagePull">>),
      Pod("Pending", "False", <<"InvalidImageName">>),
      Pod("Running", "False", <<"">>),
      Pod("Running", "False", <<"", "CrashLoopBackOff">>),
      Pod("Running", "True", <<"">>) }

Snapshots == SeqsUpTo(PodStates, MaxPods)

\* The jsonpath template of the query: per pod
\*   {.status.phase}:{Ready condition status}:{waiting reasons, concatenated}
\* followed by one blank.
PodLine(p) == <<p.phase, ":", p.ready, ":">> \o p.reasons \o <<" ">>

JsonPathOutput(pods) == Flatten([i \in 1..Len(pods) |-> PodLine(pods[i])])

\* What the reported pods are, read from their fields (not from the text).
TerminalReasons ==
    {"CrashLoopBackOff", "ImagePullBackOff", "ErrImagePull", "InvalidImageName"}

HasTerminalPod(pods) ==
    \E i \in 1..Len(pods) : \E c \in 1..Len(pods[i].reasons) :
        pods[i].reasons[c] \in TerminalReasons

PodReady(p) == p.phase = "Running" /\ p.ready = "True"

EveryPodReady(pods) == pods # <<>> /\ \A i \in 1..Len(pods) : PodReady(pods[i])

Observation(rc, pods) ==
    IF rc # 0 \/ pods = <<>> THEN "unusable"
    ELSE IF HasTerminalPod(pods) THEN "terminal"
    ELSE IF EveryPodReady(pods) THEN "ready"
    ELSE IF \E i \in 1..Len(pods) : PodReady(pods[i]) THEN "partial"
    ELSE "notready"

(***************************************************************************)
(* wait_for_pods                                                           *)
(***************************************************************************)
POD_POLL_SLEEP == 3

terminal_failures ==
    <<"CrashLoopBackOff", "ImagePullBackOff", "ErrImagePull", "InvalidImageName">>

\* Mutant: the return code of the query is not looked at.
QueryUsable_IgnoresRc(rc, stdout) == strip(stdout) # <<>>

\* Mutant: only the first status is searched for a terminal failure.
TerminalDetected_FirstOnly(statuses) ==
    /\ statuses # <<>>
    /\ \E f \in 1..Len(terminal_failures) :
         IsInfix(<<terminal_failures[f]>>, statuses[1])

\* result.returncode == 0 and result.stdout.strip()
QueryUsable(rc, stdout) == rc = 0 /\ strip(stdout) # <<>>

\* Mutant: the split() is forgotten, the whole output is one status.
pod_statuses_Unsplit(stdout) == <<strip(stdout)>>

pod_statuses(stdout) == split(strip(stdout))

\* Mutant: the last entry of terminal_failures is never tried.
TerminalDetected_MissesLast(statuses) ==
    \E i \in 1..Len(statuses) : \E f \in 1..(Len(terminal_failures) - 1) :
        IsInfix(<<terminal_failures[f]>>, statuses[i])

\* Some status contains some terminal failure word.
TerminalDetected(statuses) ==
    \E i \in 1..Len(statuses) : \E f \in 1..Len(terminal_failures) :
        IsInfix(<<terminal_failures[f]>>, statuses[i])

\* Mutant: the status is compared with "Running:True" instead of searched.
AllRunningReady_Equals(statuses) ==
    /\ statuses # <<>>
    /\ \A i \in 1..Len(statuses) : statuses[i] = <<"Running", ":", "True">>

\* pod_statuses and all("Running:True" in status for status in pod_statuses)
AllRunningReady(statuses) ==
    /\ statuses # <<>>
    /\ \A i \in 1..Len(statuses) : IsInfix(<<"Running", ":", "True">>, statuses[i])

\* Mutant: the loop also runs when the elapsed time equals the timeout.
PodsBudgetLeft_Inclusive(elapsed, timeout) == elapsed <= timeout

\* The while test: time.time() - start_time < timeout
PodsBudgetLeft(elapsed, timeout) == elapsed < timeout

IdlePods ==
    /\ wp_pc = "idle"
    /\ wp_timeout = 0
    /\ wp_elapsed = 0
    /\ wp_tickStart = 0
    /\ wp_ticks = 0
    /\ wp_rc = 0
    /\ wp_stdout = <<>>
    /\ wp_pods = <<>>
    /\ wp_seen = {}
    /\ wp_diag = <<>>
    /\ wp_result = "none"

IdleWO ==
    /\ wo_pc = "idle"
    /\ wo_agent_id = ""
    /\ wo_payload = [work_type |-> ""]
    /\ wo_id = ""
    /\ wo_timeout = 0
    /\ wo_elapsed = 0
    /\ wo_tickStart = 0
    /\ wo_ticks = 0
    /\ wo_broker_pod = ""
    /\ wo_resp = [rc |-> -1, body |-> [kind |-> "empty", obj |-> <<>>]]
    /\ wo_queries = <<>>
    /\ wo_status = "none"
    /\ wo_raised = "none"
    /\ wo_result = "none"

IdleAgent ==
    /\ ag_pc = "idle"
    /\ ag_rbac_mode = "cluster-wide"
    /\ ag_no_cleanup = FALSE
    /\ ag_rc_ok = TRUE
    /\ ag_stdout = <<>>
    /\ ag_pak = <<>>
    /\ ag_raised = FALSE
    /\ ag_out = <<>>
    /\ ag_helm_log = <<>>
    /\ ag_releases = {}
    /\ ag_ret = FALSE
    /\ ag_result = "none"
    /\ ag_calls = <<>>
    /\ ag_roles = {}

IdleName ==
    /\ nm_pc = "idle"
    /\ nm_global = <<>>
    /\ nm_generated = <<>>
    /\ nm_returned = <<>>

IdleActivate ==
    /\ aa_pc = "idle"
    /\ aa_agent_id = ""
    /\ aa_lookup = <<>>
    /\ aa_put = <<>>
    /\ aa_cmds = <<>>
    /\ aa_result = "none"

IdleTenant ==
    /\ mt_pc = "idle"
    /\ mt_no_cleanup = FALSE
    /\ mt_objects = {}
    /\ mt_releases = {}
    /\ mt_installs = <<>>
    /\ mt_ready = {}
    /\ mt_probes = <<>>
    /\ mt_health_passed = TRUE
    /\ mt_log = <<>>
    /\ mt_ret = FALSE
    /\ mt_result = "none"

IdlePayload ==
    /\ pl_pc = "idle"
    /\ pl_yaml_content = <<>>
    /\ pl_payload = <<>>
    /\ pl_bytes = <<>>
    /\ pl_payload_b64 = <<>>
    /\ pl_decoded = <<>>

IdleE2E ==
    /\ e2_pc = "idle"
    /\ e2_no_cleanup = FALSE
    /\ e2_broker = "<None>"
    /\ e2_steps = <<>>
    /\ e2_cmds = <<>>
    /\ e2_pak = <<>>
    /\ e2_agent_id = "<None>"
    /\ e2_wo_id = "<None>"
    /\ e2_releases = {}
    /\ e2_raised = FALSE
    /\ e2_ret = "False"
    /\ e2_result = "none"

IdleValuesFile ==
    /\ vf_pc = "idle"
    /\ vf_no_cleanup = FALSE
    /\ vf_name = "production"
    /\ vf_pak = <<>>
    /\ vf_calls = <<>>
    /\ vf_releases = {}
    /\ vf_raised = FALSE
    /\ vf_ret = "False"
    /\ vf_result = "none"

IdleBrokerValues ==
    /\ bv_pc = "idle"
    /\ bv_no_cleanup = FALSE
    /\ bv_name = "production"
    /\ bv_calls = <<>>
    /\ bv_releases = {}
    /\ bv_ret = "False"
    /\ bv_result = "none"

IdleCatcher ==
    /\ messages = <<>>
    /\ counter = 0
    /\ lock = 0
    /\ wc_pc = <<>>
    /\ wc_req = <<>>
    /\ wc_tmp = <<>>
    /\ wc_msg = <<>>
    /\ wc_assigned = <<>>
    /\ wc_started = 0
    /\ wc_resp = <<>>
    /\ wc_seen = 0

IdleTool ==
    /\ received_messages = <<>>
    /\ wt_pc = "off"
    /\ wt_resp = [status |-> 0, kind |-> "none", val |-> 0]

IdleTier ==
    /\ tr_pc = "idle"
    /\ tr_tier = "smoke"
    /\ tr_no_cleanup = FALSE
    /\ tr_results = <<>>
    /\ tr_broker = "<None>"
    /\ tr_idx = 0
    /\ tr_pre_failed = FALSE
    /\ tr_events = <<>>

IdleRun ==
    /\ run_pc = "idle"
    /\ run_tier = "smoke"
    /\ run_no_cleanup = FALSE
    /\ PROJECT_NAME = "<None>"
    /\ run_results = <<>>
    /\ run_tier_ran = FALSE
    /\ run_raised = "none"
    /\ run_exit = -1
    /\ docker = [containers |-> {}, volumes |-> {}]
    /\ docker_log = <<>>
    /\ build_log = <<>>
    /\ kc_elapsed = 0
    /\ kc_poll_idx = 0
    /\ kc_probes = 0
    /\ kc_lastProbeStart = 0
    /\ kc_sleeps = <<>>
    /\ kc_found = FALSE
    /\ kc_appear = -1

IdleBroker ==
    /\ bc_pc = "idle"
    /\ bc_no_cleanup = FALSE
    /\ bc_test_external_db = FALSE
    /\ bc_external_db_release = "<None>"
    /\ bc_values = <<>>
    /\ bc_health_passed = TRUE
    /\ bc_ready = {}
    /\ bc_probes = <<>>
    /\ bc_ret = FALSE
    /\ bc_result = "none"
    /\ helm_releases = {}
    /\ k8s_objects = {}
    /\ helm_log = <<>>

InitPods ==
    /\ IdleWO
    /\ IdleBroker
    /\ IdleRun
    /\ IdleTier
    /\ IdleAgent
    /\ IdleName
    /\ IdleActivate
    /\ IdleTenant
    /\ IdlePayload
    /\ IdleE2E
    /\ IdleValuesFile
    /\ IdleBrokerValues
    /\ IdleCatcher
    /\ IdleTool
    /\ wp_pc = "loop"
    /\ wp_timeout \in 1..MaxTimeout
    /\ wp_elapsed = 0
    /\ wp_tickStart = 0
    /\ wp_ticks = 0
    /\ wp_rc = 0
    /\ wp_stdout = <<>>
    /\ wp_pods = <<>>
    /\ wp_seen = {}
    /\ wp_diag = <<>>
    /\ wp_result = "none"

\* One tick, first half: the while test passes and the status query runs.
WaitForPodsQuery ==
    /\ wp_pc = "loop"
    /\ PodsBudgetLeft(wp_elapsed, wp_timeout)
    /\ \E d \in 0..MaxCmdDur :
         /\ wp_elapsed' = wp_elapsed + d
         /\ \/ \E pods \in Snapshots :
                 /\ wp_rc' = 0
                 /\ wp_stdout' = JsonPathOutput(pods)
                 /\ wp_pods' = pods
            \* a failing command may have printed what it had read
            \/ \E pods \in Snapshots :
                 /\ wp_rc' = 1
                 /\ wp_stdout' = JsonPathOutput(pods)
                 /\ wp_pods' = pods
    /\ wp_seen' = wp_seen \cup {Observation(wp_rc', wp_pods')}
    /\ wp_tickStart' = wp_elapsed
    /\ wp_pc' = "decide"
    /\ UNCHANGED <<wp_timeout, wp_ticks, wp_diag, wp_result, notPodVars>>

\* One tick, second half: classify the snapshot; return or sleep.
WaitForPodsDecide ==
    /\ wp_pc = "decide"
    /\ IF QueryUsable(wp_rc, wp_stdout) /\ TerminalDetected(pod_statuses(wp_stdout))
       THEN \E d1, d2 \in 0..MaxCmdDur :
              /\ wp_elapsed' = wp_elapsed + d1 + d2
              /\ wp_diag' = wp_diag \o <<"get pods", "describe pods">>
              /\ wp_result' = FALSE
              /\ wp_pc' = "done"
              /\ UNCHANGED <<wp_ticks, wp_rc, wp_stdout, wp_pods>>
       ELSE IF QueryUsable(wp_rc, wp_stdout) /\ AllRunningReady(pod_statuses(wp_stdout))
       THEN /\ wp_result' = TRUE
            /\ wp_pc' = "done"
            /\ UNCHANGED <<wp_elapsed, wp_ticks, wp_rc, wp_stdout, wp_pods, wp_diag>>
       ELSE /\ wp_elapsed' = wp_elapsed + POD_POLL_SLEEP
            /\ wp_ticks' = wp_ticks + 1
            /\ wp_rc' = 0
            /\ wp_stdout' = <<>>
            /\ wp_pods' = <<>>
            /\ wp_pc' = "loop"
            /\ UNCHANGED <<wp_diag, wp_result>>
    /\ UNCHANGED <<wp_timeout, wp_tickStart, wp_seen, notPodVars>>

\* The while test fails: the budget is used up.
WaitForPodsTimeout ==
    /\ wp_pc = "loop"
    /\ ~PodsBudgetLeft(wp_elapsed, wp_timeout)
    /\ wp_result' = FALSE
    /\ wp_pc' = "done"
    /\ UNCHANGED <<wp_timeout, wp_elapsed, wp_tickStart, wp_ticks, wp_rc,
                   wp_stdout, wp_pods, wp_seen, wp_diag, notPodVars>>

NextPods ==
    \/ WaitForPodsQuery
    \/ WaitForPodsDecide
    \/ WaitForPodsTimeout

SpecPods == InitPods /\ [][NextPods]_vars

(***************************************************************************)
(* Properties of wait_for_pods.                                            *)
(***************************************************************************)
\* A tick whose query succeeded and whose snapshot holds a pod with a
\* terminal waiting reason.
TerminalTick == wp_pc = "decide" /\ wp_rc = 0 /\ HasTerminalPod(wp_pods)

\* C1 as stated: a tick whose snapshot holds a pod with a terminal waiting
\* reason returns False on that tick, and the return happens strictly before
\* the timeout has elapsed.
C1_FailFastBeforeTimeout ==
    [][TerminalTick =>
         /\ wp_pc' = "done"
         /\ wp_result' = FALSE
         /\ wp_elapsed' < wp_timeout]_vars

\* C1 amended: a tick whose snapshot holds a pod with a terminal waiting
\* reason returns False on that tick without sleeping or polling again; the
\* tick passed the loop test strictly before the timeout, and the return
\* comes after at most the tick's own three commands (the query and the two
\* diagnostics), which may end after the timeout.
C1_FailFastOnTerminalTick ==
    [][TerminalTick =>
         /\ wp_pc' = "done"
         /\ wp_result' = FALSE
         /\ wp_ticks' = wp_ticks
         /\ wp_tickStart < wp_timeout
         /\ wp_elapsed' <= wp_tickStart + 3 * MaxCmdDur]_vars

\* C1 witness: the call has returned False on a terminal snapshot after
\* earlier ticks, with budget left.
C1_Witness ==
    /\ wp_pc = "done"
    /\ wp_result = FALSE
    /\ wp_rc = 0
    /\ HasTerminalPod(wp_pods)
    /\ wp_ticks >= 1
    /\ wp_elapsed < wp_timeout

\* C2: a tick whose snapshot shows every matched pod Running and Ready
\* returns True on that tick, whatever the earlier ticks observed (the
\* formula holds for every value of wp_ticks and wp_seen).
C2_ReadyTickReturnsTrue ==
    [][(wp_pc = "decide" /\ wp_rc = 0 /\ EveryPodReady(wp_pods)) =>
         (wp_pc' = "done" /\ wp_result' = TRUE /\ wp_ticks' = wp_ticks)]_vars

\* C2 witness: True returned on an all-ready snapshot after ticks that saw
\* no ready pod and partial readiness.
C2_Witness ==
    /\ wp_pc = "done"
    /\ wp_result = TRUE
    /\ EveryPodReady(wp_pods)
    /\ Len(wp_pods) > 1
    /\ {"notready", "partial"} \subseteq wp_seen

\* C3: True is returned only on a snapshot in which every matched pod is
\* Running and Ready; a call none of whose ticks saw such a snapshot returns
\* False.
C3_NoTrueOnPartialReadiness ==
    /\ wp_pc # "done" => wp_result = "none"
    /\ (wp_pc = "done" /\ wp_result = TRUE) => (wp_rc = 0 /\ EveryPodReady(wp_pods))
    /\ (wp_pc = "done" /\ "ready" \notin wp_seen) => wp_result = FALSE

\* C3 witness: the call timed out after ticks with partial readiness only.
C3_Witness ==
    /\ wp_pc = "done"
    /\ wp_result = FALSE
    /\ wp_seen = {"partial"}
    /\ wp_ticks >= 2
    /\ wp_elapsed >= wp_timeout

(***************************************************************************)
(* The broker API as seen through `kubectl exec ... curl -s`.              *)
(* A command result is its return code and its stdout.  A body is empty,   *)
(* text that is not JSON, or a JSON object (the API of spec section 6      *)
(* answers with objects); a JSON object is a function from its keys.       *)
(***************************************************************************)
PyNone == "<None>"

EmptyObj == <<>>

Body(kind, obj) == [kind |-> kind, obj |-> obj]

CmdResult(rc, body) == [rc |-> rc, body |-> body]

EmptyBody == Body("empty", EmptyObj)
TextBody == Body("text", EmptyObj)

\* dict.get(key, default)
PyGet(o, k, default) == IF k \in DOMAIN o THEN o[k] ELSE default

\* Truth value of a str-or-None
Truthy(v) == v # PyNone /\ v # ""

\* json.loads succeeds (no JSONDecodeError)
JsonParses(body) == body.kind = "object"

\* result.stdout.strip() is non-empty
NonBlank(body) == body.kind # "empty"

\* Records of the completion log: id, success and result_message, each of
\* which may be missing; result_message may be null or empty.
LogRecords ==
    { [id |-> "wo-1"] @@ s @@ m :
        s \in {EmptyObj} \cup {[success |-> b] : b \in BOOLEAN},
        m \in {EmptyObj} \cup {[result_message |-> t] : t \in {PyNone, "", "build done"}} }

\* Objects the log endpoint can answer with: a record, or an error object
\* (no id) while the work order is not in the log.
LogObjects == LogRecords \cup {[error |-> "not found"], [id |-> ""]}

LogResponses ==
    {CmdResult(1, EmptyBody), CmdResult(0, EmptyBody), CmdResult(0, TextBody)}
    \cup {CmdResult(0, Body("object", o)) : o \in LogObjects}

CreateResponses ==
    {CmdResult(1, EmptyBody), CmdResult(0, EmptyBody), CmdResult(0, TextBody),
     CmdResult(0, Body("object", [id |-> "wo-1", status |-> "PENDING"])),
     CmdResult(0, Body("object", [error |-> "bad request"]))}

(***************************************************************************)
(* create_work_order                                                       *)
(***************************************************************************)
CLAIM_TIMEOUT_SECONDS == 300

payload(work_type, yaml_content, agent_id) ==
    [work_type |-> work_type,
     yaml_content |-> yaml_content,
     target_agent_ids |-> <<agent_id>>,
     max_retries |-> 0,
     claim_timeout_seconds |-> CLAIM_TIMEOUT_SECONDS]

\* The value create_work_order returns for the POST's result.
CreatedId(r) ==
    IF r.rc # 0 THEN PyNone
    ELSE IF ~JsonParses(r.body) THEN PyNone
    ELSE PyGet(r.body.obj, "id", PyNone)

(***************************************************************************)
(* wait_for_work_order_completion                                          *)
(***************************************************************************)
WO_POLL_SLEEP == 10
WO_DEFAULT_TIMEOUT == 300
E2E_WO_TIMEOUT == 600

WoTimeouts == (1..MaxWoTimeout) \cup {E2E_WO_TIMEOUT}

\* Mutant: any object the log endpoint answers with counts as the record.
LogHasRecord_AnyObject(r) ==
    /\ r.rc = 0
    /\ NonBlank(r.body)
    /\ JsonParses(r.body)

\* The log query yielded a record carrying an id:
\*   returncode == 0 and stdout.strip(), json.loads succeeds, log_entry.get("id")
LogHasRecord(r) ==
    /\ r.rc = 0
    /\ NonBlank(r.body)
    /\ JsonParses(r.body)
    /\ Truthy(PyGet(r.body.obj, "id", PyNone))

\* return success, message
LogOutcome(r) ==
    <<PyGet(r.body.obj, "success", FALSE), PyGet(r.body.obj, "result_message", "")>>

TimeoutOutcome == <<FALSE, "Timeout">>

\* No command has run yet in this tick.
NoResult == CmdResult(-1, EmptyBody)

\* Mutant: the except clause around json.loads is missing.
WaitCatches_Nothing(exc) == FALSE

\* except json.JSONDecodeError: pass
WaitCatches(exc) == exc = "JSONDecodeError"

\* The exception json.loads raises on the log query's result, "none" if it
\* is not called or succeeds.
LogParseError(r) ==
    IF r.rc = 0 /\ NonBlank(r.body) /\ ~JsonParses(r.body)
    THEN "JSONDecodeError" ELSE "none"

\* what GET /api/v1/work-orders/{id} may be answered with while the wait
\* polls: the live work order in any status, or an error object once the
\* work order has left the table
LiveResponses ==
    {CmdResult(1, EmptyBody), CmdResult(0, EmptyBody), CmdResult(0, TextBody),
     CmdResult(0, Body("object", [error |-> "not found"]))}
    \cup {CmdResult(0, Body("object", [id |-> "wo-1", status |-> st])) :
            st \in {"PENDING", "COMPLETED", "FAILED"}}

\* the status the tick prints from the live work order, "none" when the
\* command failed, printed nothing or printed no JSON
live_status(r) ==
    IF r.rc = 0 /\ NonBlank(r.body) /\ JsonParses(r.body)
    THEN PyGet(r.body.obj, "status", "UNKNOWN")
    ELSE "none"

\* Mutant: the while test lets a tick start when the budget is just used up.
WoBudgetLeft_Inclusive(elapsed, timeout) == elapsed <= timeout

\* The while test: time.time() - start_time < timeout
WoBudgetLeft(elapsed, timeout) == elapsed < timeout

NoPodOutcome == <<FALSE, "Failed to get broker pod">>

InitWO ==
    /\ IdlePods
    /\ IdleBroker
    /\ IdleRun
    /\ IdleTier
    /\ IdleAgent
    /\ IdleName
    /\ IdleActivate
    /\ IdleTenant
    /\ IdlePayload
    /\ IdleE2E
    /\ IdleValuesFile
    /\ IdleBrokerValues
    /\ IdleCatcher
    /\ IdleTool
    /\ wo_pc = "create"
    /\ wo_agent_id = "agent-1"
    /\ wo_payload = [work_type |-> ""]
    /\ wo_id = ""
    /\ wo_timeout \in WoTimeouts
    /\ wo_elapsed = 0
    /\ wo_tickStart = 0
    /\ wo_ticks = 0
    /\ wo_broker_pod = ""
    /\ wo_resp = [rc |-> -1, body |-> [kind |-> "empty", obj |-> <<>>]]
    /\ wo_queries = <<>>
    /\ wo_status = "none"
    /\ wo_raised = "none"
    /\ wo_result = "none"

\* create_work_order(broker, admin_pak, agent_id, "build", build_yaml) as
\* test_shipwright_e2e calls it; without an id the scenario returns False
\* and the wait is never started.
CreateWorkOrder ==
    /\ wo_pc = "create"
    /\ wo_payload' = payload("build", "build_yaml", wo_agent_id)
    /\ \E podFound \in BOOLEAN : \E r \in CreateResponses :
         wo_id' = IF podFound THEN CreatedId(r) ELSE PyNone
    /\ wo_pc' = IF Truthy(wo_id') THEN "wait" ELSE "done"
    /\ UNCHANGED <<wo_agent_id, wo_timeout, wo_elapsed, wo_tickStart, wo_ticks,
                   wo_broker_pod, wo_resp, wo_queries, wo_status, wo_raised,
                   wo_result, notWoVars>>

\* The wait starts its clock, then looks up the broker pod once.
WaitGetBrokerPod ==
    /\ wo_pc = "wait"
    /\ \E d \in 0..MaxCmdDur : wo_elapsed' = d
    /\ \E podFound \in BOOLEAN :
         IF podFound
         THEN wo_broker_pod' = "broker-0" /\ wo_pc' = "loop" /\ wo_result' = wo_result
         ELSE wo_broker_pod' = PyNone /\ wo_pc' = "done" /\ wo_result' = NoPodOutcome
    /\ UNCHANGED <<wo_agent_id, wo_payload, wo_id, wo_timeout, wo_tickStart,
                   wo_ticks, wo_resp, wo_queries, wo_status, wo_raised,
                   notWoVars>>

\* One tick, first query: the completion log.
WaitQueryLog ==
    /\ wo_pc = "loop"
    /\ WoBudgetLeft(wo_elapsed, wo_timeout)
    /\ \E d \in 0..MaxCmdDur : wo_elapsed' = wo_elapsed + d
    /\ \E r \in LogResponses : wo_resp' = r
    /\ wo_tickStart' = wo_elapsed
    /\ wo_queries' = <<"work-order-log">>
    /\ wo_status' = "none"
    /\ wo_pc' = "log"
    /\ UNCHANGED <<wo_agent_id, wo_payload, wo_id, wo_timeout, wo_ticks,
                   wo_broker_pod, wo_raised, wo_result, notWoVars>>

\* The log yielded a record: return its success and message.
WaitReturnRecord ==
    /\ wo_pc = "log"
    /\ LogHasRecord(wo_resp)
    /\ wo_result' = LogOutcome(wo_resp)
    /\ wo_pc' = "done"
    /\ UNCHANGED <<wo_agent_id, wo_payload, wo_id, wo_timeout, wo_elapsed,
                   wo_tickStart, wo_ticks, wo_broker_pod, wo_resp, wo_queries,
                   wo_status, wo_raised, notWoVars>>

\* No record yet (a JSONDecodeError is passed over): query the live work
\* order, whose answer is only printed, then sleep.
WaitQueryStatusAndSleep ==
    /\ wo_pc = "log"
    /\ ~LogHasRecord(wo_resp)
    /\ IF LogParseError(wo_resp) # "none" /\ ~WaitCatches(LogParseError(wo_resp))
       THEN /\ wo_raised' = LogParseError(wo_resp)
            /\ wo_pc' = "done"
            /\ UNCHANGED <<wo_elapsed, wo_queries, wo_status, wo_resp, wo_ticks>>
       ELSE /\ \E d \in 0..MaxCmdDur :
                 wo_elapsed' = wo_elapsed + d + WO_POLL_SLEEP
            /\ \E live \in LiveResponses : wo_status' = live_status(live)
            /\ wo_queries' = <<"work-order-log", "work-orders">>
            /\ wo_resp' = NoResult
            /\ wo_ticks' = wo_ticks + 1
            /\ wo_pc' = "loop"
            /\ UNCHANGED wo_raised
    /\ UNCHANGED <<wo_agent_id, wo_payload, wo_id, wo_timeout, wo_tickStart,
                   wo_broker_pod, wo_result, notWoVars>>

\* The while test fails: return (False, "Timeout").
WaitTimeout ==
    /\ wo_pc = "loop"
    /\ ~WoBudgetLeft(wo_elapsed, wo_timeout)
    /\ wo_result' = TimeoutOutcome
    /\ wo_pc' = "done"
    /\ UNCHANGED <<wo_agent_id, wo_payload, wo_id, wo_timeout, wo_elapsed,
                   wo_tickStart, wo_ticks, wo_broker_pod, wo_resp, wo_queries,
                   wo_status, wo_raised, notWoVars>>

NextWO ==
    \/ CreateWorkOrder
    \/ WaitGetBrokerPod
    \/ WaitQueryLog
    \/ WaitReturnRecord
    \/ WaitQueryStatusAndSleep
    \/ WaitTimeout

SpecWO == InitWO /\ [][NextWO]_vars

(***************************************************************************)
(* Properties of wait_for_work_order_completion.                           *)
(***************************************************************************)
\* The log query's result is a completion-log record carrying an id (read
\* from the response itself).
IsLogRecord(r) ==
    /\ r.rc = 0
    /\ r.body.kind = "object"
    /\ "id" \in DOMAIN r.body.obj
    /\ r.body.obj.id \notin {"", PyNone}

\* The wait has returned or raised after its poll loop was reached.
WaitEndedAfterPolling == wo_pc = "done" /\ wo_broker_pod = "broker-0"

WaitEnded == wo_pc = "done" /\ Truthy(wo_id)

helm_uninstall_flags_NoIgnore == {"--wait"}

\* helm uninstall {release} --namespace {ns} --wait --ignore-not-found
helm_uninstall_flags == {"--wait", "--ignore-not-found"}

\* Helm: uninstalling a release that is installed removes it and succeeds;
\* uninstalling one that is not fails with "release: not found", unless
\* --ignore-not-found is given.
HelmUninstallOk(release, installed, flags) ==
    release \in installed \/ "--ignore-not-found" \in flags

HelmCall(cmd, release, found, ok) ==
    [cmd |-> cmd, release |-> release, found |-> found, ok |-> ok]

\* helm_uninstall(release): the log and the releases after the call.
LogAfterUninstall(log, installed, release) ==
    Append(log, HelmCall("uninstall", release, release \in installed,
                         HelmUninstallOk(release, installed, helm_uninstall_flags)))

ReleasesAfterUninstall(installed, release) == installed \ {release}

\* Mutant: the events are gathered first.
InstallDiagnostics_EventsFirst(release, oks) ==
    << HelmCall("kubectl get events --sort-by=.lastTimestamp", release, FALSE, oks[3]),
       HelmCall("kubectl get pods", release, FALSE, oks[1]),
       HelmCall("kubectl logs --all-containers", release, FALSE, oks[2]) >>

\* helm_install: the install command, then on failure the three
\* diagnostics, each of which may succeed or fail (oks) without any effect.
InstallDiagnostics(release, oks) ==
    << HelmCall("kubectl get pods", release, FALSE, oks[1]),
       HelmCall("kubectl logs --all-containers", release, FALSE, oks[2]),
       HelmCall("kubectl get events --sort-by=.lastTimestamp", release, FALSE, oks[3]) >>

DiagnosticOutcomes == [1..3 -> BOOLEAN]

LogAfterInstall(log, installed, release, ok, oks) ==
    Append(log, HelmCall("install", release, release \in installed, ok))
      \o (IF ok THEN <<>> ELSE InstallDiagnostics(release, oks))

(***************************************************************************)
(* validate_health_endpoint (task_helm.py 436-453) and its callers' use of *)
(* the verdict.                                                            *)
(***************************************************************************)
\* exit codes of the probe command: 0, 1 (kubectl run failed) and 22 (curl
\* -f on an HTTP status of 400 or more)
ProbeExitCodes == {0, 1, 22}

\* run_in_k8s_container(cmd, description): result.returncode == 0
run_in_k8s_container(cmd, returncode) == returncode = 0

\* the command of one probe: a temporary pod that curls the service
probe_cmd(service_name, port, path) ==
    <<"kubectl run curl-test --rm -i --restart=Never -- curl -f -s http://",
      service_name, ":", port, path>>

\* Mutant: a failed probe is tried once more.
validate_health_endpoint_Retry(service_name, port, path, returncode) ==
    [cmds |-> IF returncode = 0
              THEN <<probe_cmd(service_name, port, path)>>
              ELSE <<probe_cmd(service_name, port, path),
                     probe_cmd(service_name, port, path)>>,
     success |-> returncode = 0]

\* validate_health_endpoint: the commands it runs and what it returns, for
\* the exit code of the probe command
validate_health_endpoint(service_name, port, path, returncode) ==
    LET cmd == probe_cmd(service_name, port, path)
        success == run_in_k8s_container(cmd, returncode)
    IN [cmds |-> <<cmd>>, success |-> success]

\* Mutant: the outcome of the probe is assigned, not accumulated.
HealthAccumulate_Assign(health_passed, ok) == ok

HealthAccumulate_Or(health_passed, ok) == health_passed \/ ok

\* health_passed &= validate_health_endpoint(...)
HealthAccumulate(health_passed, ok) == health_passed /\ ok

(***************************************************************************)
(* test_broker_chart                                                       *)
(***************************************************************************)
BROKER_RELEASE == "brokkr-broker-test"
EXTERNAL_DB == "external-postgres"
BROKER_FOR_AGENT_RELEASE == "brokkr-broker-for-agent-test"

\* values for the bundled and for the external PostgreSQL
BundledDbValues == [postgresql_enabled |-> "true", postgresql_external_host |-> PyNone]

ExternalDbValues == [postgresql_enabled |-> "false", postgresql_external_host |-> EXTERNAL_DB]

InitBroker ==
    /\ IdlePods
    /\ IdleWO
    /\ IdleRun
    /\ IdleTier
    /\ IdleAgent
    /\ IdleName
    /\ IdleActivate
    /\ IdleTenant
    /\ IdlePayload
    /\ IdleE2E
    /\ IdleValuesFile
    /\ IdleBrokerValues
    /\ IdleCatcher
    /\ IdleTool
    /\ bc_pc = "start"
    /\ bc_no_cleanup \in BOOLEAN
    /\ bc_test_external_db \in BOOLEAN
    /\ bc_external_db_release = PyNone
    /\ bc_values = <<>>
    /\ bc_health_passed = TRUE
    /\ bc_ready = {}
    /\ bc_probes = <<>>
    /\ bc_ret = FALSE
    /\ bc_result = "none"
    \* a reused cluster may still hold what an earlier run left behind
    /\ helm_releases \in SUBSET {BROKER_RELEASE, BROKER_FOR_AGENT_RELEASE}
    /\ k8s_objects \in SUBSET {EXTERNAL_DB}
    /\ helm_log = <<>>

\* try: deploy the external PostgreSQL when asked to, else go on.
BrokerDeployExternalDb ==
    /\ bc_pc = "start"
    /\ IF bc_test_external_db
       THEN /\ bc_external_db_release' = EXTERNAL_DB
            /\ \E applied \in BOOLEAN :
                 IF applied
                 THEN /\ k8s_objects' = k8s_objects \cup {EXTERNAL_DB}
                      /\ bc_values' = ExternalDbValues
                      /\ bc_pc' = "install"
                      /\ bc_ret' = bc_ret
                 ELSE /\ k8s_objects' = k8s_objects
                      /\ bc_values' = bc_values
                      /\ bc_pc' = "finally"
                      /\ bc_ret' = FALSE
       ELSE /\ bc_pc' = "install"
            /\ bc_values' = BundledDbValues
            /\ UNCHANGED <<bc_external_db_release, k8s_objects, bc_ret>>
    /\ UNCHANGED <<bc_health_passed, bc_ready, bc_probes, bc_no_cleanup,
                   bc_test_external_db, bc_result, helm_releases,
                   helm_log, notBcVars>>

\* helm_install(chart_name, release_name, values).  Helm refuses a name that
\* is in use; a failed install may leave the release behind.
BrokerInstall ==
    /\ bc_pc = "install"
    /\ \E ok \in BOOLEAN : \E left \in BOOLEAN :
         /\ ok => BROKER_RELEASE \notin helm_releases
         /\ ok => left
         /\ helm_releases' =
              IF left THEN helm_releases \cup {BROKER_RELEASE} ELSE helm_releases
         /\ left \/ BROKER_RELEASE \notin helm_releases
         /\ \E oks \in DiagnosticOutcomes :
              helm_log' = LogAfterInstall(helm_log, helm_releases, BROKER_RELEASE,
                                          ok, oks)
         /\ IF ok
            THEN bc_pc' = "wait" /\ bc_ret' = bc_ret
            ELSE bc_pc' = "finally" /\ bc_ret' = FALSE
    /\ UNCHANGED <<bc_no_cleanup, bc_test_external_db, bc_external_db_release,
                   bc_values, bc_health_passed, bc_ready, bc_probes, bc_result,
                   k8s_objects,
                   notBcVars>>

\* wait_for_pods(release_name); on failure uninstall (unless no_cleanup) and
\* return False.
BrokerWaitForPods ==
    /\ bc_pc = "wait"
    /\ \E ready \in BOOLEAN :
         IF ready
         THEN /\ bc_pc' = "health"
              /\ bc_ready' = bc_ready \cup {BROKER_RELEASE}
              /\ UNCHANGED <<bc_ret, helm_releases, helm_log>>
         ELSE /\ bc_pc' = "finally"
              /\ bc_ready' = bc_ready
              /\ bc_ret' = FALSE
              /\ IF ~bc_no_cleanup
                 THEN /\ helm_log' = LogAfterUninstall(helm_log, helm_releases, BROKER_RELEASE)
                      /\ helm_releases' = ReleasesAfterUninstall(helm_releases, BROKER_RELEASE)
                 ELSE UNCHANGED <<helm_releases, helm_log>>
    /\ UNCHANGED <<bc_no_cleanup, bc_test_external_db, bc_external_db_release,
                   bc_values, bc_health_passed, bc_probes, bc_result, k8s_objects,
                   notBcVars>>

\* health_passed = True
\* health_passed &= validate_health_endpoint(release_name, 3000, "/healthz")
BrokerValidateHealthz ==
    /\ bc_pc = "health"
    /\ \E returncode \in ProbeExitCodes :
         LET v == validate_health_endpoint(BROKER_RELEASE, 3000, "/healthz", returncode)
         IN /\ bc_probes' = Append(bc_probes,
                 [service |-> BROKER_RELEASE, path |-> "/healthz", ok |-> v.success])
            /\ bc_health_passed' = HealthAccumulate(TRUE, v.success)
    /\ bc_pc' = "readyz"
    /\ UNCHANGED <<bc_no_cleanup, bc_test_external_db, bc_external_db_release,
                   bc_values, bc_ready, bc_ret, bc_result, helm_releases,
                   k8s_objects, helm_log, notBcVars>>

\* health_passed &= validate_health_endpoint(release_name, 3000, "/readyz")
\* return health_passed
BrokerValidateReadyz ==
    /\ bc_pc = "readyz"
    /\ \E returncode \in ProbeExitCodes :
         LET v == validate_health_endpoint(BROKER_RELEASE, 3000, "/readyz", returncode)
         IN /\ bc_probes' = Append(bc_probes,
                 [service |-> BROKER_RELEASE, path |-> "/readyz", ok |-> v.success])
            /\ bc_health_passed' = HealthAccumulate(bc_health_passed, v.success)
            /\ bc_ret' = HealthAccumulate(bc_health_passed, v.success)
    /\ bc_pc' = "finally"
    /\ UNCHANGED <<bc_no_cleanup, bc_test_external_db, bc_external_db_release,
                   bc_values, bc_ready, bc_result, helm_releases, k8s_objects,
                   helm_log, notBcVars>>

\* finally: uninstall the release and delete the external database, unless
\* no_cleanup; then the pending return completes.
BrokerFinally ==
    /\ bc_pc = "finally"
    /\ IF ~bc_no_cleanup
       THEN /\ helm_log' = LogAfterUninstall(helm_log, helm_releases, BROKER_RELEASE)
            /\ helm_releases' = ReleasesAfterUninstall(helm_releases, BROKER_RELEASE)
            /\ k8s_objects' =
                 IF bc_external_db_release # PyNone
                 THEN k8s_objects \ {bc_external_db_release} ELSE k8s_objects
       ELSE UNCHANGED <<helm_releases, helm_log, k8s_objects>>
    /\ bc_result' = bc_ret
    /\ bc_pc' = "done"
    /\ UNCHANGED <<bc_no_cleanup, bc_test_external_db, bc_external_db_release,
                   bc_values, bc_health_passed, bc_ready, bc_probes, bc_ret,
                   notBcVars>>

NextBroker ==
    \/ BrokerDeployExternalDb
    \/ BrokerInstall
    \/ BrokerWaitForPods
    \/ BrokerValidateHealthz
    \/ BrokerValidateReadyz
    \/ BrokerFinally

SpecBroker == InitBroker /\ [][NextBroker]_vars

(***************************************************************************)
(* Properties of helm_uninstall.                                           *)
(***************************************************************************)
\* C4: every helm_uninstall returns success, also for a release that is not
\* installed, and leaves the release absent; so two uninstalls of the same
\* release in a row (the failure path, then the finally block) both succeed.
C4_UninstallIdempotent ==
    /\ \A i \in 1..Len(helm_log) :
         helm_log[i].cmd = "uninstall" => helm_log[i].ok
    /\ (helm_log # <<>> /\ helm_log[Len(helm_log)].cmd = "uninstall") =>
         helm_log[Len(helm_log)].release \notin helm_releases

\* C4 witness: the release was uninstalled twice in a row, the second time
\* when it was no longer installed, and both calls returned success.
C4_Witness ==
    /\ bc_pc = "done"
    /\ Len(helm_log) >= 2
    /\ LET a == helm_log[Len(helm_log) - 1]
           b == helm_log[Len(helm_log)]
       IN /\ a.cmd = "uninstall" /\ b.cmd = "uninstall"
          /\ a.release = b.release
          /\ a.found /\ ~b.found
          /\ a.ok /\ b.ok
    /\ BROKER_RELEASE \notin helm_releases

(***************************************************************************)
(* Properties of helm_install.                                             *)
(***************************************************************************)
DiagnosticCmds ==
    {"kubectl get pods", "kubectl logs --all-containers",
     "kubectl get events --sort-by=.lastTimestamp"}

\* C13: a failed install is followed at once by pod status, then the logs
\* of all containers, then the events sorted by time, whatever each of the
\* three returns, and the caller is handed False (it returns False without
\* waiting for pods); a successful install is followed by none of them.
C13_InstallDiagnostics ==
    \A i \in 1..Len(helm_log) :
      helm_log[i].cmd = "install" =>
        IF helm_log[i].ok
        THEN i < Len(helm_log) => helm_log[i + 1].cmd \notin DiagnosticCmds
        ELSE /\ Len(helm_log) >= i + 3
             /\ helm_log[i + 1].cmd = "kubectl get pods"
             /\ helm_log[i + 2].cmd = "kubectl logs --all-containers"
             /\ helm_log[i + 3].cmd = "kubectl get events --sort-by=.lastTimestamp"
             /\ i + 4 <= Len(helm_log) => helm_log[i + 4].cmd \notin DiagnosticCmds
             /\ bc_pc \in {"finally", "done"}
             /\ bc_ret = FALSE

\* C13 witness: an install failed, the log and the events command failed
\* too, and test_broker_chart returned False.
C13_Witness ==
    /\ bc_pc = "done"
    /\ bc_result = FALSE
    /\ \E i \in 1..Len(helm_log) :
         /\ helm_log[i].cmd = "install" /\ ~helm_log[i].ok
         /\ Len(helm_log) >= i + 3
         /\ helm_log[i + 1].ok
         /\ ~helm_log[i + 2].ok
         /\ ~helm_log[i + 3].ok

(***************************************************************************)
(* The docker host: docker_up, docker_down, docker_clean (utils.py) and    *)
(* the project name that scopes them.                                      *)
(***************************************************************************)
\* uuid.uuid4().hex[:8]: two of the values it can take
ShortIds == {"0a1b2c3d", "9f8e7d6c"}

NoProject == <<>>

generate_project_name(short_id) == <<"helm-test-", short_id>>

\* Mutant: a new name on every call.
get_project_name_Fresh(current, short_id) == generate_project_name(short_id)

\* get_project_name() when _PROJECT_NAME holds current
get_project_name(current, short_id) ==
    IF current = NoProject THEN generate_project_name(short_id) ELSE current

ProjectNames == {generate_project_name(id) : id \in ShortIds}

\* the volumes docker_clean names
clean_volumes ==
    {"brokkr-postgres-data", "k3s-data", "brokkr-keys", "registry-data"}

\* the volumes of the services ensure_k3s_running starts
ComposeVolumes == {"brokkr-keys", "k3s-data", "registry-data"}

VolumesOf(projects, names) == {<<p, v>> : p \in projects, v \in names}

\* docker compose -p project up: unless it fails at once, the project's
\* containers and volumes exist afterwards
docker_up(d, project, outcome) ==
    IF outcome = "nothing"
    THEN d
    ELSE [containers |-> d.containers \cup {project},
          volumes |-> d.volumes \cup VolumesOf({project}, ComposeVolumes)]

\* docker compose -p project down: containers and network go, named
\* volumes stay
docker_down(d, project) ==
    [d EXCEPT !.containers = @ \ {project}]

\* docker volume rm ... 2>/dev/null || true: removes the named volumes that
\* exist and are not in use; never fails
docker_clean(d, project) ==
    IF project \in d.containers
    THEN d
    ELSE [d EXCEPT !.volumes = @ \ VolumesOf({project}, clean_volumes)]

DockerCmd(op, project) == <<op, project>>

\* docker_down(project=project); docker_clean(project=project)
Teardown(d, project) == docker_clean(docker_down(d, project), project)

TeardownLog(log, project) ==
    log \o <<DockerCmd("down", project), DockerCmd("clean", project)>>

(***************************************************************************)
(* The tier runners, by the result lists they can return.                  *)
(***************************************************************************)
Named(names, bs) == [i \in 1..Len(names) |-> <<names[i], bs[i]>>]

NamedResults(names) == {Named(names, bs) : bs \in [1..Len(names) -> BOOLEAN]}

Concat(A, B) == {a \o b : a \in A, b \in B}

\* Mutant: the summary passes when some scenario passed.
print_test_results_Any(results) ==
    \E i \in 1..Len(results) : results[i][2]

\* print_test_results: all(success for _, success in results)
print_test_results(results) ==
    \A i \in 1..Len(results) : results[i][2]

\* run_parallel_template_tests
template_tests ==
    << "template-brokkr-broker", "template-brokkr-broker-production",
       "template-brokkr-broker-development", "template-brokkr-broker-staging",
       "template-brokkr-agent", "template-brokkr-agent-production",
       "template-brokkr-agent-development", "template-brokkr-agent-staging" >>

\* run_smoke_tests: templates, broker-deploy, then the agent unless the
\* broker failed
run_smoke_tests ==
    Concat(NamedResults(template_tests),
           {<< <<"broker-deploy", FALSE>> >>}
             \cup Concat({<< <<"broker-deploy", TRUE>> >>},
                         NamedResults(<<"agent-deploy">>)
                           \cup {<< <<"agent-broker-setup", FALSE>> >>}))

\* run_full_tests: the smoke results; the extended scenarios only when
\* every smoke result is True
smoke_passed(smoke_results) ==
    \A i \in 1..Len(smoke_results) : smoke_results[i][2]

run_full_tests ==
    {r \in run_smoke_tests : ~smoke_passed(r)}
      \cup Concat({r \in run_smoke_tests : smoke_passed(r)},
                  Concat(NamedResults(<<"broker-external-db",
                                        "broker-multi-tenant-schema">>),
                         {<<>>} \cup NamedResults(<<"agent-rbac-namespace-scoped",
                                                    "agent-rbac-disabled">>)))

\* run_shipwright_tests
run_shipwright_tests ==
    {<< <<"shipwright-broker-setup", FALSE>> >>}
      \cup NamedResults(<<"shipwright-e2e">>)

\* run_legacy_tests(component)
run_legacy_tests(component) ==
    Concat(IF component \in {"broker", "all"}
           THEN NamedResults(<<"broker-bundled-db", "broker-external-db",
                               "broker-multi-tenant-schema",
                               "broker-values-production",
                               "broker-values-development",
                               "broker-values-staging">>)
           ELSE {<<>>},
      Concat(IF component \in {"agent", "all"}
             THEN {<< <<"agent-broker-setup", FALSE>> >>}
                    \cup NamedResults(<<"agent-rbac-cluster-wide",
                                        "agent-rbac-namespace-scoped",
                                        "agent-rbac-disabled",
                                        "agent-values-production",
                                        "agent-values-development",
                                        "agent-values-staging">>)
             ELSE {<<>>},
             IF component = "shipwright" THEN run_shipwright_tests
             ELSE IF component = "all" THEN NamedResults(<<"shipwright-e2e">>)
             ELSE {<<>>}))

valid_tiers == {"smoke", "full", "shipwright"}
legacy_components == {"broker", "agent", "all"}

\* the dispatch on tier in test_helm_chart
TierResults(tier) ==
    IF tier = "smoke" THEN run_smoke_tests
    ELSE IF tier = "full" THEN run_full_tests
    ELSE IF tier = "shipwright" THEN run_shipwright_tests
    ELSE run_legacy_tests(tier)

(***************************************************************************)
(* verify_kubectl_connectivity: the wait for kubeconfig.docker.yaml.       *)
(***************************************************************************)
max_wait == 30

\* Mutant: a schedule that keeps doubling.
poll_intervals_Doubling == <<1, 2, 4, 8, 16, 32>>

poll_intervals == <<1, 1, 2, 2, 3, 3, 5, 5, 5, 5>>

Min(a, b) == IF a < b THEN a ELSE b

\* poll_intervals[min(poll_idx, len(poll_intervals) - 1)], indices from 0
sleep_time(poll_idx) ==
    poll_intervals[Min(poll_idx, Len(poll_intervals) - 1) + 1]

\* Mutant: the loop also runs when the elapsed time equals max_wait.
KcBudgetLeft_Inclusive(elapsed) == elapsed <= max_wait

\* while time.time() - start_time < max_wait
KcBudgetLeft(elapsed) == elapsed < max_wait

KC_TIMEOUT == "Timeout waiting for kubeconfig.docker.yaml to be created"
KC_NO_CLUSTER == "Failed to connect to k3s cluster"

\* when the export step can write the file: a second before max_wait, or
\* not within the wait (-1)
KubeconfigTimes == (0..(max_wait - 1)) \cup {-1}

\* test -f /keys/kubeconfig.docker.yaml, run at second at
KubeconfigExists(at) == kc_appear >= 0 /\ kc_appear <= at

kcVars == <<kc_elapsed, kc_poll_idx, kc_probes, kc_lastProbeStart, kc_sleeps,
            kc_found, kc_appear>>

(***************************************************************************)
(* test_helm_chart                                                         *)
(***************************************************************************)
Tiers == valid_tiers \cup legacy_components \cup {"bogus"}

\* images of build_and_push_local_images, in order
images == <<"broker", "agent">>

\* Mutant: the images are built but not pushed.
BuildCmdsOf_NoPush(component) == <<<<"build", component>>>>

\* the commands issued for one image
BuildCmdsOf(component) == <<<<"build", component>>, <<"push", component>>>>

BuildCmds == BuildCmdsOf(images[1]) \o BuildCmdsOf(images[2])

\* Mutant: the except clause never cleans up.
HandlerCleansUp_Never(no_cleanup) == FALSE

\* Mutant: the except clause cleans up whatever no_cleanup says.
HandlerCleansUp_Always(no_cleanup) == TRUE

\* except Exception: if not no_cleanup: docker_down; docker_clean
HandlerCleansUp(no_cleanup) == ~no_cleanup

InitRun ==
    /\ IdlePods
    /\ IdleWO
    /\ IdleBroker
    /\ IdleTier
    /\ IdleAgent
    /\ IdleName
    /\ IdleActivate
    /\ IdleTenant
    /\ IdlePayload
    /\ IdleE2E
    /\ IdleValuesFile
    /\ IdleBrokerValues
    /\ IdleCatcher
    /\ IdleTool
    /\ run_pc = "start"
    /\ run_tier \in Tiers
    /\ run_no_cleanup \in BOOLEAN
    /\ PROJECT_NAME = NoProject
    /\ run_results = <<>>
    /\ run_tier_ran = FALSE
    /\ run_raised = "none"
    /\ run_exit = -1
    \* volumes a crashed earlier run may have left behind
    /\ \E left \in SUBSET ProjectNames :
         docker = [containers |-> {}, volumes |-> VolumesOf(left, ComposeVolumes)]
    /\ docker_log = <<>>
    /\ build_log = <<>>
    /\ kc_elapsed = 0
    /\ kc_poll_idx = 0
    /\ kc_probes = 0
    /\ kc_lastProbeStart = 0
    /\ kc_sleeps = <<>>
    /\ kc_found = FALSE
    /\ kc_appear = -1

\* if tier not in valid_tiers + legacy_components: sys.exit(1)
RunCheckTier ==
    /\ run_pc = "start"
    /\ IF run_tier \notin valid_tiers \cup legacy_components
       THEN run_pc' = "exit" /\ run_exit' = 1
       ELSE run_pc' = "ensure" /\ run_exit' = run_exit
    /\ UNCHANGED <<run_tier, run_no_cleanup, PROJECT_NAME, run_results,
                   run_tier_ran, run_raised, docker, docker_log, build_log, kcVars,
                   notRunVars>>

\* ensure_k3s_running: name the project, docker_clean, docker_up.  docker_up
\* raises when /tmp/brokkr-keys cannot be made and ignores the status of
\* docker compose.
EnsureK3sRunning ==
    /\ run_pc = "ensure"
    /\ \E short_id \in ShortIds :
       \E outcome \in {"up", "partial", "nothing", "raise"} :
         LET project == get_project_name(PROJECT_NAME, short_id)
             cleaned == docker_clean(docker, project)
         IN /\ PROJECT_NAME' = project
            /\ IF outcome = "raise"
               THEN /\ docker' = cleaned
                    /\ docker_log' = Append(docker_log, DockerCmd("clean", project))
                    /\ run_raised' = "OSError"
                    /\ run_pc' = "except"
                    /\ kc_appear' = kc_appear
               ELSE /\ docker' = docker_up(cleaned, project, outcome)
                    /\ docker_log' = docker_log \o
                         <<DockerCmd("clean", project), DockerCmd("up", project)>>
                    /\ run_raised' = run_raised
                    /\ run_pc' = "build"
                    /\ kc_appear' \in IF outcome = "up" THEN KubeconfigTimes ELSE {-1}
    /\ UNCHANGED <<run_tier, run_no_cleanup, run_results, run_tier_ran, run_exit,
                   kc_elapsed, kc_poll_idx, kc_probes, kc_lastProbeStart,
                   kc_sleeps, kc_found, build_log, notRunVars>>

\* build_and_push_local_images: docker build, then docker push, for the
\* broker and then the agent; the first command that fails ends it with
\* (False, None).  On failure test_helm_chart calls sys.exit(1), which raises
\* SystemExit and so passes the except Exception clause by.
BuildAndPushLocalImages ==
    /\ run_pc = "build"
    /\ \E done \in 0..Len(BuildCmds) : \E outcome \in {"returns", "raise"} :
         LET issued == Min(done + 1, Len(BuildCmds))
             success == done = Len(BuildCmds)
         IN /\ build_log' = [i \in 1..issued |-> BuildCmds[i] \o <<i <= done>>]
            /\ run_pc' = IF success THEN "verify"
                         ELSE IF outcome = "raise" THEN "except"
                         ELSE "exit"
            /\ run_exit' = IF ~success /\ outcome = "returns" THEN 1 ELSE run_exit
            /\ run_raised' = IF ~success /\ outcome = "raise"
                             THEN "OSError" ELSE run_raised
    /\ UNCHANGED <<run_tier, run_no_cleanup, PROJECT_NAME, run_results,
                   run_tier_ran, docker, docker_log, kcVars,
                   notRunVars>>

\* One pass of the while loop: probe; break when the file is there, else
\* sleep sleep_time and count the poll.
KcProbe ==
    /\ run_pc = "verify"
    /\ KcBudgetLeft(kc_elapsed)
    /\ \E dur \in 0..MaxCmdDur : \E at \in 0..dur :
         /\ kc_probes' = kc_probes + 1
         /\ kc_lastProbeStart' = kc_elapsed
         /\ IF KubeconfigExists(kc_elapsed + at)
            THEN /\ kc_found' = TRUE
                 /\ kc_elapsed' = kc_elapsed + dur
                 /\ run_pc' = "nodes"
                 /\ UNCHANGED <<kc_poll_idx, kc_sleeps>>
            ELSE /\ kc_found' = kc_found
                 /\ kc_sleeps' = Append(kc_sleeps, sleep_time(kc_poll_idx))
                 /\ kc_elapsed' = kc_elapsed + dur + sleep_time(kc_poll_idx)
                 /\ kc_poll_idx' = kc_poll_idx + 1
                 /\ run_pc' = run_pc
    /\ UNCHANGED <<run_tier, run_no_cleanup, PROJECT_NAME, run_results,
                   run_tier_ran, run_raised, run_exit, docker, docker_log,
                   build_log, kc_appear, notRunVars>>

\* The else clause of the while loop: list /keys/ and raise.
KcTimeout ==
    /\ run_pc = "verify"
    /\ ~KcBudgetLeft(kc_elapsed)
    /\ run_raised' = KC_TIMEOUT
    /\ run_pc' = "except"
    /\ UNCHANGED <<run_tier, run_no_cleanup, PROJECT_NAME, run_results,
                   run_tier_ran, run_exit, docker, docker_log, build_log, kcVars,
                   notRunVars>>

\* kubectl get nodes; raise when it fails.  On return the locals of the wait
\* are gone.
KcGetNodes ==
    /\ run_pc = "nodes"
    /\ \E success \in BOOLEAN :
         IF success
         THEN /\ run_pc' = "tier"
              /\ run_raised' = run_raised
              /\ kc_elapsed' = 0
              /\ kc_poll_idx' = 0
              /\ kc_probes' = 0
              /\ kc_lastProbeStart' = 0
              /\ kc_sleeps' = <<>>
              /\ kc_appear' = 0
              /\ kc_found' = kc_found
         ELSE /\ run_pc' = "except"
              /\ run_raised' = KC_NO_CLUSTER
              /\ UNCHANGED kcVars
    /\ UNCHANGED <<run_tier, run_no_cleanup, PROJECT_NAME, run_results,
                   run_tier_ran, run_exit, docker, docker_log, build_log,
                   notRunVars>>

\* results = run_..._tests(tag, registry, no_cleanup)
RunTier ==
    /\ run_pc = "tier"
    /\ run_results' \in TierResults(run_tier)
    /\ run_tier_ran' = TRUE
    /\ run_pc' = "report"
    /\ UNCHANGED <<run_tier, run_no_cleanup, PROJECT_NAME, run_raised, run_exit,
                   docker, docker_log, build_log, kcVars, notRunVars>>

\* A scenario of the tier raises (a subprocess that cannot be started).
RunTierRaises ==
    /\ run_pc = "tier"
    /\ run_tier_ran' = TRUE
    /\ run_raised' = "OSError"
    /\ run_pc' = "except"
    /\ UNCHANGED <<run_tier, run_no_cleanup, PROJECT_NAME, run_results, run_exit,
                   docker, docker_log, build_log, kcVars, notRunVars>>

\* all_passed = print_test_results(results); tear down unless no_cleanup;
\* sys.exit(1) if not all_passed.
RunReport ==
    /\ run_pc = "report"
    /\ \E short_id \in ShortIds :
         LET project == get_project_name(PROJECT_NAME, short_id)
         IN /\ PROJECT_NAME' = project
            /\ IF run_no_cleanup
               THEN UNCHANGED <<docker, docker_log>>
               ELSE /\ docker' = Teardown(docker, project)
                    /\ docker_log' = TeardownLog(docker_log, project)
    /\ run_exit' = IF print_test_results(run_results) THEN 0 ELSE 1
    /\ run_pc' = "exit"
    /\ UNCHANGED <<run_tier, run_no_cleanup, run_results, run_tier_ran,
                   run_raised, build_log, kcVars, notRunVars>>

\* except Exception: tear down unless no_cleanup; sys.exit(1).
RunExcept ==
    /\ run_pc = "except"
    /\ IF HandlerCleansUp(run_no_cleanup)
       THEN \E short_id \in ShortIds :
              LET project == get_project_name(PROJECT_NAME, short_id)
              IN /\ PROJECT_NAME' = project
                 /\ docker' = Teardown(docker, project)
                 /\ docker_log' = TeardownLog(docker_log, project)
       ELSE UNCHANGED <<PROJECT_NAME, docker, docker_log>>
    /\ run_exit' = 1
    /\ run_pc' = "exit"
    /\ UNCHANGED <<run_tier, run_no_cleanup, run_results, run_tier_ran,
                   run_raised, build_log, kcVars, notRunVars>>

NextRun ==
    \/ RunCheckTier
    \/ EnsureK3sRunning
    \/ BuildAndPushLocalImages
    \/ KcProbe
    \/ KcTimeout
    \/ KcGetNodes
    \/ RunTier
    \/ RunTierRaises
    \/ RunReport
    \/ RunExcept

SpecRun == InitRun /\ [][NextRun]_vars

(***************************************************************************)
(* Properties of test_helm_chart and of the credential wait.               *)
(***************************************************************************)
RunEnded == run_pc = "exit"

\* The project's containers and every volume docker_clean names are gone,
\* and the last two docker commands were down, then clean, for the project.
TornDown ==
    /\ PROJECT_NAME # NoProject
    /\ PROJECT_NAME \notin docker.containers
    /\ \A v \in clean_volumes : <<PROJECT_NAME, v>> \notin docker.volumes
    /\ Len(docker_log) >= 2
    /\ docker_log[Len(docker_log) - 1] = DockerCmd("down", PROJECT_NAME)
    /\ docker_log[Len(docker_log)] = DockerCmd("clean", PROJECT_NAME)

\* C5: in a run without no_cleanup that ended after a provisioning step or a
\* scenario raised an exception (or after the tier returned), docker_down and
\* then docker_clean were issued for the run's project, and the project's
\* containers and volumes are gone.
C5_TeardownOnException ==
    (RunEnded /\ ~run_no_cleanup /\ (run_raised # "none" \/ run_tier_ran))
      => TornDown

\* C5 witness: a scenario raised after the cluster had come up, the run was
\* not to be retained, and the environment is torn down.
C5_Witness ==
    /\ RunEnded
    /\ ~run_no_cleanup
    /\ run_tier_ran
    /\ run_raised = "OSError"
    /\ \E i \in 1..Len(docker_log) : docker_log[i] = DockerCmd("up", PROJECT_NAME)
    /\ TornDown

AnyFalse(results) == \E i \in 1..Len(results) : ~results[i][2]

\* C6: a run that ended has exit status 0 or 1; it is non-zero when some
\* result is False and when an exception was raised; it is zero only when the
\* tier returned, every result is True and no exception was raised.
C6_ExitStatus ==
    /\ ~RunEnded => run_exit = -1
    /\ RunEnded =>
         /\ run_exit \in {0, 1}
         /\ AnyFalse(run_results) => run_exit # 0
         /\ run_raised # "none" => run_exit # 0
         /\ run_exit = 0 =>
              /\ run_tier_ran
              /\ run_results # <<>>
              /\ ~AnyFalse(run_results)
              /\ run_raised = "none"

\* C6 witness: the tier returned passes and one failure, nothing raised, and
\* the run ended with status 1.
C6_Witness ==
    /\ RunEnded
    /\ run_raised = "none"
    /\ AnyFalse(run_results)
    /\ \E i \in 1..Len(run_results) : run_results[i][2]
    /\ run_exit = 1

WaitFailed == run_pc \in {"except", "exit"} /\ kc_probes > 0 /\ ~kc_found

\* C7: every probe starts before max_wait has elapsed; when the wait ended
\* and no probe found the file, the timeout exception was raised at or after
\* max_wait, no tier ran, no result exists and the run ends with status 1;
\* and once it is raised no further probe is issued and no tier is started.
C7_KubeconfigTimeoutIsFatal ==
    /\ [](/\ kc_probes > 0 => kc_lastProbeStart < max_wait
          /\ WaitFailed =>
               /\ run_raised = KC_TIMEOUT
               /\ kc_elapsed >= max_wait
               /\ ~run_tier_ran
               /\ run_results = <<>>
               /\ RunEnded => run_exit = 1
          /\ run_raised = KC_TIMEOUT => WaitFailed)
    /\ [][run_raised = KC_TIMEOUT =>
            /\ kc_probes' = kc_probes
            /\ run_tier_ran' = FALSE
            /\ run_pc' \in {"except", "exit"}]_vars

\* C7 witness: the run ended on the timeout of the credential wait: the file
\* did not appear, the whole schedule of probes was issued.
C7_Witness ==
    /\ RunEnded
    /\ run_raised = KC_TIMEOUT
    /\ kc_probes = Len(poll_intervals)
    /\ ~run_tier_ran
    /\ run_exit = 1

\* C8: the sleeps of the credential wait start at 1, never decrease and
\* never exceed 5; and for every poll index, also beyond the end of the
\* schedule, sleep_time is at least 1, at most 5, not less than for the index
\* before, and 5 once the schedule is exhausted.
C8_SleepSchedule ==
    /\ kc_sleeps # <<>> => kc_sleeps[1] = 1
    /\ \A i \in 1..Len(kc_sleeps) :
         /\ kc_sleeps[i] <= 5
         /\ i > 1 => kc_sleeps[i - 1] <= kc_sleeps[i]
    /\ sleep_time(0) = 1
    /\ \A idx \in 0..MaxPollIdx :
         /\ sleep_time(idx) >= 1
         /\ sleep_time(idx) <= 5
         /\ sleep_time(idx) <= sleep_time(idx + 1)
         /\ idx >= Len(poll_intervals) - 1 => sleep_time(idx) = 5

\* C8 witness: the wait slept through the whole schedule, ending at the
\* ceiling.
C8_Witness ==
    /\ run_pc = "verify"
    /\ Len(kc_sleeps) = Len(poll_intervals)
    /\ kc_sleeps[1] = 1
    /\ kc_sleeps[Len(kc_sleeps)] = 5

(***************************************************************************)
(* The tier runners, statement by statement.  A scenario call is one step: *)
(* it is recorded with the broker release it was given and appends its     *)
(* (test_name, success) pair to results.                                   *)
(***************************************************************************)
Ev(kind, fn, name, broker) ==
    [kind |-> kind, fn |-> fn, name |-> name, broker |-> broker]

\* helm_uninstall(release, quiet=True) of the pre-cleanup
PreUninstall(release) == Ev("pre-uninstall", "helm_uninstall", release, PyNone)

\* helm_uninstall(release) after the scenarios
Uninstall(release) == Ev("uninstall", "helm_uninstall", release, PyNone)

Scenario(fn, name, broker) == Ev("scenario", fn, name, broker)

\* stale_releases of run_smoke_tests
smoke_stale_releases ==
    << "brokkr-broker-test", "brokkr-broker-for-agent-test",
       "brokkr-agent-test-cluster-wide", "brokkr-agent-test-namespace-scoped",
       "brokkr-agent-test-no-rbac" >>

\* stale_releases of run_shipwright_tests
shipwright_stale_releases ==
    << "brokkr-broker-for-agent-test", "brokkr-agent-test-shipwright" >>

\* the releases run_full_tests uninstalls after a passed smoke subset
full_cleanup_releases ==
    << "brokkr-broker-test", "brokkr-broker-for-agent-test",
       "brokkr-agent-test-cluster-wide" >>

\* Mutant: the extended scenarios run whatever the smoke subset returned.
FullGoesOn_Always(smoke_results) == TRUE

\* if not smoke_passed: return results
FullGoesOn(smoke_results) == smoke_passed(smoke_results)

\* for rbac_mode in ["namespace-scoped", "disabled"]
full_rbac_modes == << "namespace-scoped", "disabled" >>

\* the broker scenarios of run_legacy_tests, in order
legacy_broker_scenarios ==
    << [fn |-> "test_broker_chart", name |-> "broker-bundled-db"],
       [fn |-> "test_broker_chart", name |-> "broker-external-db"],
       [fn |-> "test_broker_multi_tenant_schema",
        name |-> "broker-multi-tenant-schema"],
       [fn |-> "test_broker_with_values_file", name |-> "broker-values-production"],
       [fn |-> "test_broker_with_values_file", name |-> "broker-values-development"],
       [fn |-> "test_broker_with_values_file", name |-> "broker-values-staging"] >>

\* the agent scenarios of run_legacy_tests, in order
legacy_agent_scenarios ==
    << [fn |-> "test_agent_chart", name |-> "agent-rbac-cluster-wide"],
       [fn |-> "test_agent_chart", name |-> "agent-rbac-namespace-scoped"],
       [fn |-> "test_agent_chart", name |-> "agent-rbac-disabled"],
       [fn |-> "test_agent_with_values_file", name |-> "agent-values-production"],
       [fn |-> "test_agent_with_values_file", name |-> "agent-values-development"],
       [fn |-> "test_agent_with_values_file", name |-> "agent-values-staging"] >>

MapSeq(Op(_), seq) == [i \in 1..Len(seq) |-> Op(seq[i])]

\* the no_cleanup run_smoke_tests is called with: run_full_tests passes True
SmokeNoCleanup == IF tr_tier = "full" THEN TRUE ELSE tr_no_cleanup

\* where run_smoke_tests returns to
AfterSmoke == IF tr_tier = "full" THEN "f_check" ELSE "done"

TierEntry(tier) ==
    CASE tier \in {"smoke", "full"} -> "s_pre"
      [] tier = "shipwright" -> "w_pre"
      [] tier \in {"broker", "all"} -> "l_broker"
      [] tier = "agent" -> "l_deploy"

InitTier ==
    /\ IdlePods
    /\ IdleWO
    /\ IdleBroker
    /\ IdleRun
    /\ IdleAgent
    /\ IdleName
    /\ IdleActivate
    /\ IdleTenant
    /\ IdlePayload
    /\ IdleE2E
    /\ IdleValuesFile
    /\ IdleBrokerValues
    /\ IdleCatcher
    /\ IdleTool
    /\ tr_tier \in valid_tiers \cup legacy_components
    /\ tr_pc = TierEntry(tr_tier)
    /\ tr_no_cleanup \in BOOLEAN
    /\ tr_results = <<>>
    /\ tr_broker = PyNone
    /\ tr_idx = 1
    /\ tr_pre_failed = FALSE
    /\ tr_events = <<>>

\* run_smoke_tests: for release in stale_releases: helm_uninstall(release,
\* quiet=True); the return values are dropped
SmokePreCleanup ==
    /\ tr_pc = "s_pre"
    /\ \E oks \in [1..Len(smoke_stale_releases) -> BOOLEAN] :
         tr_pre_failed' = \E i \in DOMAIN oks : ~oks[i]
    /\ tr_events' = tr_events \o MapSeq(PreUninstall, smoke_stale_releases)
    /\ tr_pc' = "s_templates"
    /\ UNCHANGED <<tr_tier, tr_no_cleanup, tr_results, tr_broker, tr_idx,
                   notTrVars>>

\* results.extend(run_parallel_template_tests(tag, registry))
SmokeTemplates ==
    /\ tr_pc = "s_templates"
    /\ \E template_results \in NamedResults(template_tests) :
         tr_results' = tr_results \o template_results
    /\ tr_events' = Append(tr_events,
                           Ev("template", "run_parallel_template_tests", "all", PyNone))
    /\ tr_pc' = "s_broker"
    /\ UNCHANGED <<tr_tier, tr_no_cleanup, tr_broker, tr_idx, tr_pre_failed,
                   notTrVars>>

\* test_broker_chart(no_cleanup=True); on failure return results
SmokeBrokerDeploy ==
    /\ tr_pc = "s_broker"
    /\ \E result \in BOOLEAN :
         /\ tr_results' = Append(tr_results, <<"broker-deploy", result>>)
         /\ tr_pc' = IF result THEN "s_deploy" ELSE AfterSmoke
    /\ tr_events' = Append(tr_events,
                           Scenario("test_broker_chart", "broker-deploy", PyNone))
    /\ UNCHANGED <<tr_tier, tr_no_cleanup, tr_broker, tr_idx, tr_pre_failed,
                   notTrVars>>

\* broker_release_name = deploy_test_broker(tag, registry)
SmokeDeployTestBroker ==
    /\ tr_pc = "s_deploy"
    /\ tr_events' = Append(tr_events,
         Ev("deploy", "deploy_test_broker", BROKER_FOR_AGENT_RELEASE, PyNone))
    /\ \E deployed \in BOOLEAN :
         IF deployed
         THEN /\ tr_broker' = BROKER_FOR_AGENT_RELEASE
              /\ tr_pc' = "s_agent"
              /\ tr_results' = tr_results
         ELSE /\ tr_broker' = PyNone
              /\ tr_pc' = AfterSmoke
              /\ tr_results' = Append(tr_results, <<"agent-broker-setup", FALSE>>)
    /\ UNCHANGED <<tr_tier, tr_no_cleanup, tr_idx, tr_pre_failed, notTrVars>>

\* test_agent_chart(rbac_mode="cluster-wide"); uninstall the broker unless
\* no_cleanup; return results
SmokeAgentDeploy ==
    /\ tr_pc = "s_agent"
    /\ \E result \in BOOLEAN :
         tr_results' = Append(tr_results, <<"agent-deploy", result>>)
    /\ tr_events' =
         Append(tr_events, Scenario("test_agent_chart", "agent-deploy", tr_broker))
           \o (IF SmokeNoCleanup THEN <<>> ELSE <<Uninstall(tr_broker)>>)
    /\ tr_pc' = AfterSmoke
    /\ UNCHANGED <<tr_tier, tr_no_cleanup, tr_broker, tr_idx, tr_pre_failed,
                   notTrVars>>

\* run_full_tests after the smoke subset: return its results when one is
\* False, else uninstall the smoke releases and go on
FullCheckSmoke ==
    /\ tr_pc = "f_check"
    /\ IF FullGoesOn(tr_results)
       THEN /\ tr_events' = tr_events \o MapSeq(Uninstall, full_cleanup_releases)
            /\ tr_pc' = "f_ext"
       ELSE /\ tr_events' = tr_events
            /\ tr_pc' = "done"
    /\ UNCHANGED <<tr_tier, tr_no_cleanup, tr_results, tr_broker, tr_idx,
                   tr_pre_failed, notTrVars>>

\* test_broker_chart(test_external_db=True)
FullExternalDb ==
    /\ tr_pc = "f_ext"
    /\ \E result \in BOOLEAN :
         tr_results' = Append(tr_results, <<"broker-external-db", result>>)
    /\ tr_events' = Append(tr_events,
         Scenario("test_broker_chart", "broker-external-db", PyNone))
    /\ tr_pc' = "f_mt"
    /\ UNCHANGED <<tr_tier, tr_no_cleanup, tr_broker, tr_idx, tr_pre_failed,
                   notTrVars>>

\* test_broker_multi_tenant_schema
FullMultiTenant ==
    /\ tr_pc = "f_mt"
    /\ \E result \in BOOLEAN :
         tr_results' = Append(tr_results, <<"broker-multi-tenant-schema", result>>)
    /\ tr_events' = Append(tr_events,
         Scenario("test_broker_multi_tenant_schema", "broker-multi-tenant-schema",
                  PyNone))
    /\ tr_pc' = "f_deploy"
    /\ UNCHANGED <<tr_tier, tr_no_cleanup, tr_broker, tr_idx, tr_pre_failed,
                   notTrVars>>

\* broker_release_name = deploy_test_broker(tag, registry); without a broker
\* return results
FullDeployTestBroker ==
    /\ tr_pc = "f_deploy"
    /\ tr_events' = Append(tr_events,
         Ev("deploy", "deploy_test_broker", BROKER_FOR_AGENT_RELEASE, PyNone))
    /\ \E deployed \in BOOLEAN :
         /\ tr_broker' = IF deployed THEN BROKER_FOR_AGENT_RELEASE ELSE PyNone
         /\ tr_pc' = IF deployed THEN "f_rbac" ELSE "done"
    /\ tr_idx' = 1
    /\ UNCHANGED <<tr_tier, tr_no_cleanup, tr_results, tr_pre_failed, notTrVars>>

\* one pass of: for rbac_mode in [...]: test_agent_chart(...); after the
\* last one uninstall the broker unless no_cleanup
FullRbacMode ==
    /\ tr_pc = "f_rbac"
    /\ LET name == "agent-rbac-" \o full_rbac_modes[tr_idx]
           last == tr_idx = Len(full_rbac_modes)
       IN /\ \E result \in BOOLEAN :
               tr_results' = Append(tr_results, <<name, result>>)
          /\ tr_events' =
               Append(tr_events, Scenario("test_agent_chart", name, tr_broker))
                 \o (IF last /\ ~tr_no_cleanup THEN <<Uninstall(tr_broker)>> ELSE <<>>)
          /\ tr_pc' = IF last THEN "done" ELSE tr_pc
          /\ tr_idx' = IF last THEN tr_idx ELSE tr_idx + 1
    /\ UNCHANGED <<tr_tier, tr_no_cleanup, tr_broker, tr_pre_failed, notTrVars>>

\* run_shipwright_tests: uninstall the stale releases and delete stale
\* builds, all quiet and unchecked
ShipwrightPreCleanup ==
    /\ tr_pc = "w_pre"
    /\ \E oks \in [1..Len(shipwright_stale_releases) -> BOOLEAN] :
         tr_pre_failed' = \E i \in DOMAIN oks : ~oks[i]
    /\ tr_events' = tr_events \o MapSeq(PreUninstall, shipwright_stale_releases)
    /\ tr_pc' = "w_deploy"
    /\ UNCHANGED <<tr_tier, tr_no_cleanup, tr_results, tr_broker, tr_idx,
                   notTrVars>>

\* deploy_test_broker; without a broker the only result is the failed setup
ShipwrightDeployTestBroker ==
    /\ tr_pc = "w_deploy"
    /\ tr_events' = Append(tr_events,
         Ev("deploy", "deploy_test_broker", BROKER_FOR_AGENT_RELEASE, PyNone))
    /\ \E deployed \in BOOLEAN :
         IF deployed
         THEN /\ tr_broker' = BROKER_FOR_AGENT_RELEASE
              /\ tr_pc' = "w_e2e"
              /\ tr_results' = tr_results
         ELSE /\ tr_broker' = PyNone
              /\ tr_pc' = "done"
              /\ tr_results' = Append(tr_results, <<"shipwright-broker-setup", FALSE>>)
    /\ UNCHANGED <<tr_tier, tr_no_cleanup, tr_idx, tr_pre_failed, notTrVars>>

\* test_shipwright_e2e; uninstall the broker unless no_cleanup
ShipwrightE2E ==
    /\ tr_pc = "w_e2e"
    /\ \E result \in BOOLEAN :
         tr_results' = Append(tr_results, <<"shipwright-e2e", result>>)
    /\ tr_events' =
         Append(tr_events, Scenario("test_shipwright_e2e", "shipwright-e2e", tr_broker))
           \o (IF tr_no_cleanup THEN <<>> ELSE <<Uninstall(tr_broker)>>)
    /\ tr_pc' = "done"
    /\ UNCHANGED <<tr_tier, tr_no_cleanup, tr_broker, tr_idx, tr_pre_failed,
                   notTrVars>>

\* run_legacy_tests, component in ["broker", "all"]: the next broker scenario
LegacyBrokerScenario ==
    /\ tr_pc = "l_broker"
    /\ LET sc == legacy_broker_scenarios[tr_idx]
           last == tr_idx = Len(legacy_broker_scenarios)
       IN /\ \E result \in BOOLEAN :
               tr_results' = Append(tr_results, <<sc.name, result>>)
          /\ tr_events' = Append(tr_events, Scenario(sc.fn, sc.name, PyNone))
          /\ tr_pc' = IF ~last THEN tr_pc
                      ELSE IF tr_tier = "all" THEN "l_deploy" ELSE "done"
          /\ tr_idx' = IF last THEN 1 ELSE tr_idx + 1
    /\ UNCHANGED <<tr_tier, tr_no_cleanup, tr_broker, tr_pre_failed, notTrVars>>

\* component in ["agent", "all"]: deploy_test_broker; without a broker the
\* agent scenarios are replaced by the failed setup
LegacyDeployTestBroker ==
    /\ tr_pc = "l_deploy"
    /\ tr_events' = Append(tr_events,
         Ev("deploy", "deploy_test_broker", BROKER_FOR_AGENT_RELEASE, PyNone))
    /\ \E deployed \in BOOLEAN :
         IF deployed
         THEN /\ tr_broker' = BROKER_FOR_AGENT_RELEASE
              /\ tr_pc' = "l_agent"
              /\ tr_results' = tr_results
         ELSE /\ tr_broker' = PyNone
              /\ tr_pc' = IF tr_tier = "all" THEN "l_ship" ELSE "done"
              /\ tr_results' = Append(tr_results, <<"agent-broker-setup", FALSE>>)
    /\ tr_idx' = 1
    /\ UNCHANGED <<tr_tier, tr_no_cleanup, tr_pre_failed, notTrVars>>

\* the next agent scenario; after the last one uninstall the broker unless
\* no_cleanup or the Shipwright scenario follows
LegacyAgentScenario ==
    /\ tr_pc = "l_agent"
    /\ LET sc == legacy_agent_scenarios[tr_idx]
           last == tr_idx = Len(legacy_agent_scenarios)
           cleans == last /\ ~tr_no_cleanup /\ tr_tier \notin {"shipwright", "all"}
       IN /\ \E result \in BOOLEAN :
               tr_results' = Append(tr_results, <<sc.name, result>>)
          /\ tr_events' =
               Append(tr_events, Scenario(sc.fn, sc.name, tr_broker))
                 \o (IF cleans THEN <<Uninstall(tr_broker)>> ELSE <<>>)
          /\ tr_pc' = IF ~last THEN tr_pc
                      ELSE IF tr_tier = "all" THEN "l_ship" ELSE "done"
          /\ tr_idx' = IF last THEN tr_idx ELSE tr_idx + 1
    /\ UNCHANGED <<tr_tier, tr_no_cleanup, tr_broker, tr_pre_failed, notTrVars>>

\* component == "all": test_shipwright_e2e with the broker_release_name the
\* agent part left, then helm_uninstall(broker_release_name) unless
\* no_cleanup
LegacyShipwrightE2E ==
    /\ tr_pc = "l_ship"
    /\ \E result \in BOOLEAN :
         tr_results' = Append(tr_results, <<"shipwright-e2e", result>>)
    /\ tr_events' =
         Append(tr_events, Scenario("test_shipwright_e2e", "shipwright-e2e", tr_broker))
           \o (IF tr_no_cleanup THEN <<>> ELSE <<Uninstall(tr_broker)>>)
    /\ tr_pc' = "done"
    /\ UNCHANGED <<tr_tier, tr_no_cleanup, tr_broker, tr_idx, tr_pre_failed,
                   notTrVars>>

NextTier ==
    \/ SmokePreCleanup
    \/ SmokeTemplates
    \/ SmokeBrokerDeploy
    \/ SmokeDeployTestBroker
    \/ SmokeAgentDeploy
    \/ FullCheckSmoke
    \/ FullExternalDb
    \/ FullMultiTenant
    \/ FullDeployTestBroker
    \/ FullRbacMode
    \/ ShipwrightPreCleanup
    \/ ShipwrightDeployTestBroker
    \/ ShipwrightE2E
    \/ LegacyBrokerScenario
    \/ LegacyDeployTestBroker
    \/ LegacyAgentScenario
    \/ LegacyShipwrightE2E

SpecTier == InitTier /\ [][NextTier]_vars

(***************************************************************************)
(* Properties of the tier runners.                                         *)
(***************************************************************************)
SeqToSet(seq) == {seq[i] : i \in 1..Len(seq)}

SmokeNames ==
    SeqToSet(template_tests) \cup {"broker-deploy", "agent-deploy", "agent-broker-setup"}

ExtendedNames ==
    {"broker-external-db", "broker-multi-tenant-schema",
     "agent-rbac-namespace-scoped", "agent-rbac-disabled"}

IsSmokeResult(r) == r[1] \in SmokeNames

\* the results of the embedded smoke subset
SmokePart(results) == SelectSeq(results, IsSmokeResult)

SmokeReturned == tr_pc \in {"f_check", "f_ext", "f_mt", "f_deploy", "f_rbac", "done"}

ExtendedStarted ==
    \E i \in 1..Len(tr_events) :
      \/ tr_events[i].kind = "scenario" /\ tr_events[i].name \in ExtendedNames
      \/ tr_events[i].kind = "uninstall"

\* C11: in the full tier, once the smoke subset has returned a list with a
\* False entry, the runner returns: no extended scenario is ever started,
\* deploy_test_broker is not called again, nothing is uninstalled, and the
\* result list is exactly the smoke result list.
C11_FullShortCircuits ==
    (tr_tier = "full" /\ SmokeReturned /\ AnyFalse(SmokePart(tr_results))) =>
      /\ tr_pc \in {"f_check", "done"}
      /\ tr_results = SmokePart(tr_results)
      /\ ~ExtendedStarted
      /\ Cardinality({i \in 1..Len(tr_events) : tr_events[i].kind = "deploy"}) <= 1

\* C11 witness: the full tier returned after a smoke subset in which the
\* templates passed and the agent deployment failed.
C11_Witness ==
    /\ tr_tier = "full"
    /\ tr_pc = "done"
    /\ <<"agent-deploy", FALSE>> \in SeqToSet(tr_results)
    /\ <<"broker-deploy", TRUE>> \in SeqToSet(tr_results)
    /\ Len(tr_results) = Len(template_tests) + 2

\* a step that installs a chart: deploy_test_broker and every scenario
InstallsChart(e) == e.kind \in {"deploy", "scenario"}

\* C12: in every tier, a step that installs a chart comes only after an
\* uninstall of stale releases, and the run goes on to a non-empty result
\* list when such an uninstall failed.
C12_PreCleanupBeforeFirstInstall ==
    /\ \A i \in 1..Len(tr_events) :
         InstallsChart(tr_events[i]) =>
           \E j \in 1..(i - 1) : tr_events[j].kind = "pre-uninstall"
    /\ (tr_pc = "done" /\ tr_pre_failed) => tr_results # <<>>

AgentSideFns ==
    {"test_agent_chart", "test_agent_with_values_file", "test_shipwright_e2e"}

\* C16: in every tier an agent-side scenario (agent chart test, values-file
\* agent test, Shipwright end-to-end) is started only after
\* deploy_test_broker was called and handed back the broker release it
\* installed and found ready, and the scenario is given that release.
C16_AgentAfterBrokerReady ==
    \A i \in 1..Len(tr_events) :
      (tr_events[i].kind = "scenario" /\ tr_events[i].fn \in AgentSideFns) =>
        /\ tr_events[i].broker = BROKER_FOR_AGENT_RELEASE
        /\ \E j \in 1..(i - 1) :
             /\ tr_events[j].kind = "deploy"
             /\ tr_events[j].fn = "deploy_test_broker"

(***************************************************************************)
(* create_agent_in_broker and test_agent_chart (task_helm.py).             *)
(*                                                                         *)
(* The output of the creation command is a sequence of atoms: "{" and "}", *)
(* "text" (a kubectl status message or anything else that is no JSON), and *)
(* the members a JSON object may hold: initial_pak with a non-empty string *)
(* ("pak:str"), with "" ("pak:empty"), with null ("pak:null"), with a      *)
(* number ("pak:num"), and another member ("id:str").  Blanks are not      *)
(* modelled, so stdout.strip() has nothing to remove.  A PAK and a printed *)
(* line are sequences of atoms as well: one atom per character of the PAK, *)
(* one atom per piece of fixed text.                                       *)
(***************************************************************************)
MaxStdoutLen == 3   \* atoms in the output of the agent creation command

PakMembers == {"pak:str", "pak:empty", "pak:null", "pak:num"}

Members == PakMembers \cup {"id:str"}

StdoutAtoms == {"{", "}", "text"} \cup Members

\* two credentials of the format of ADMIN_PAK
IssuedPaks ==
    { << "b","r","o","k","k","r","_","B","R","3","r","V","s","D","a","_",
         "G","K","3","Q","N","7","C","D","U","z","Y","c","6","i","K","g",
         "M","k","J","9","8","M","2","W","S","i","m","M","5","t","6","U","8" >>,
      << "b","r","o","k","k","r","_","B","R","3","r","V","s","D","a","_",
         "G","K","3","Q","N","7","C","D","U","z","Y","c","6","i","K","g",
         "M","k","J","9","8","M","2","W","S","i","m","M","5","t","6","U","9" >> }

NoPak == <<>>

\* str.find and str.rfind, counted from 1; 0 where Python returns -1
find(s, a) ==
    IF \E i \in 1..Len(s) : s[i] = a
    THEN CHOOSE i \in 1..Len(s) : s[i] = a /\ \A j \in 1..(i - 1) : s[j] # a
    ELSE 0

rfind(s, a) ==
    IF \E i \in 1..Len(s) : s[i] = a
    THEN CHOOSE i \in 1..Len(s) : s[i] = a /\ \A j \in (i + 1)..Len(s) : s[j] # a
    ELSE 0

\* json.loads(json_str) for a text that starts with "{" and ends with "}":
\* the object's members, or JSONDecodeError (ok FALSE)
json_loads(json_str) ==
    IF \A i \in 2..(Len(json_str) - 1) : json_str[i] \in Members
    THEN [ok |-> TRUE, obj |-> SubSeq(json_str, 2, Len(json_str) - 1)]
    ELSE [ok |-> FALSE, obj |-> <<>>]

\* Mutant: an object without the member still yields a credential.
get_initial_pak_Default(obj) ==
    LET I == {i \in 1..Len(obj) : obj[i] \in PakMembers}
    IN IF I = {} THEN "pak:str"
       ELSE obj[CHOOSE i \in I : \A j \in I : j <= i]

\* response.get("initial_pak"): the last member of that name wins
get_initial_pak(obj) ==
    LET I == {i \in 1..Len(obj) : obj[i] \in PakMembers}
    IN IF I = {} THEN "pak:null"
       ELSE obj[CHOOSE i \in I : \A j \in I : j <= i]

\* bool(pak)
PakTruthy(v) == v \in {"pak:str", "pak:num"}

\* whether pak[:20] is defined (TypeError otherwise)
Subscriptable(v) == v = "pak:str"

PakShown == 20

Take(s, n) == SubSeq(s, 1, Min(n, Len(s)))

\* the text of stdout, the issued credential standing where the member
\* that carries it stands
Render(stdout, issued) ==
    Flatten([i \in 1..Len(stdout) |->
               IF stdout[i] = "pak:str"
               THEN <<"initial_pak:">> \o issued
               ELSE <<stdout[i]>>])

ErrShown == 200

\* create_agent_in_broker: kind "pak" (returns pak), "none" (returns None)
\* or "raise" (an exception other than JSONDecodeError), and the lines
\* it prints
create_agent_in_broker(rc_ok, stdout, issued) ==
    LET creating == << <<"Creating agent via API...">> >>
        json_start == find(stdout, "{")
        json_end == rfind(stdout, "}")
        json_str == SubSeq(stdout, json_start, json_end)
        shown == Take(Render(stdout, issued), ErrShown)
    IN IF ~rc_ok
       THEN [kind |-> "none", pak |-> NoPak,
             lines |-> creating \o
                       << <<"ERROR: Failed to create agent via API">>,
                          <<"  Return code: ">>,
                          <<"  Stderr: ">>,
                          <<"  Stdout: ">> \o Render(stdout, issued) >>]
       ELSE IF json_start >= 1 /\ json_end > json_start
       THEN IF ~json_loads(json_str).ok
            THEN [kind |-> "none", pak |-> NoPak,
                  lines |-> creating \o
                            << <<"ERROR: Invalid JSON response: ">> \o shown,
                               <<"  Parse error: ">> >>]
            ELSE LET v == get_initial_pak(json_loads(json_str).obj)
                 IN IF PakTruthy(v)
                    THEN IF Subscriptable(v)
                         THEN [kind |-> "pak", pak |-> issued,
                               lines |-> creating \o
                                 << <<"Extracted PAK: ">>
                                      \o Take(issued, PakShown) \o <<"...">> >>]
                         ELSE [kind |-> "raise", pak |-> NoPak,
                               lines |-> creating]
                    ELSE [kind |-> "none", pak |-> NoPak,
                          lines |-> creating \o
                            << <<"ERROR: No initial_pak in response: ">>
                                 \o Take(Render(json_str, issued), ErrShown) >>]
       ELSE [kind |-> "none", pak |-> NoPak,
             lines |-> creating \o
                       << <<"ERROR: No JSON found in response: ">> \o shown >>]

agent_release_name(rbac_mode) == "brokkr-agent-test-" \o rbac_mode

agent_name_of(rbac_mode) == "test-agent-" \o rbac_mode

\* a call as the scenarios record it: the function, the agent or release
\* it is about, the values it is given, the PAK it returned, and whether
\* what it returned is truthy
Call(fn, name, values, pak, ok) ==
    [fn |-> fn, name |-> name, values |-> values, pak |-> pak, ok |-> ok]

\* the kinds of RBAC object the agent chart can render
RbacKinds == {"Role", "ClusterRole"}

agent_chart_name == "brokkr-agent"

\* agent_values of test_agent_chart, in insertion order
agent_values(rbac_mode, pak) ==
    << [k |-> "image.tag", v |-> <<"tag">>],
       [k |-> "image.repository", v |-> <<"registry/brokkr-agent">>],
       [k |-> "broker.url", v |-> <<"http://" \o BROKER_FOR_AGENT_RELEASE \o ":3000">>],
       [k |-> "broker.agentName", v |-> <<agent_name_of(rbac_mode)>>],
       [k |-> "broker.clusterName", v |-> <<"test-cluster">>],
       [k |-> "broker.pak", v |-> pak],
       [k |-> "shipwright.enabled", v |-> <<"false">>] >>
    \o (IF rbac_mode = "cluster-wide"
        THEN << [k |-> "rbac.create", v |-> <<"true">>],
                [k |-> "rbac.clusterWide", v |-> <<"true">>] >>
        ELSE IF rbac_mode = "namespace-scoped"
        THEN << [k |-> "rbac.create", v |-> <<"true">>],
                [k |-> "rbac.clusterWide", v |-> <<"false">>] >>
        ELSE << [k |-> "rbac.create", v |-> <<"false">>] >>)

\* " ".join([f"--set {k}={v}" for k, v in values.items()])
values_args(values) ==
    Flatten([i \in 1..Len(values) |->
               <<" --set ", values[i].k, "=">> \o values[i].v])

\* what helm_install prints before it runs the command
HelmInstallOutput(chart_name, release_name, values) ==
    << <<"Installing Helm chart: ", chart_name>>,
       <<"Release name: ", release_name>>,
       <<"Namespace: default">>,
       <<"Debug: Checking charts directory contents...">>,
       <<"Helm command: helm install ", release_name, " /charts/", chart_name,
         " --namespace default --create-namespace --wait --timeout 10m">>
         \o values_args(values) >>

InitAgent ==
    /\ IdlePods
    /\ IdleWO
    /\ IdleBroker
    /\ IdleRun
    /\ IdleTier
    /\ IdleName
    /\ IdleActivate
    /\ IdleTenant
    /\ IdlePayload
    /\ IdleE2E
    /\ IdleValuesFile
    /\ IdleBrokerValues
    /\ IdleCatcher
    /\ IdleTool
    /\ ag_pc = "create"
    /\ ag_rbac_mode \in {"cluster-wide"} \cup SeqToSet(full_rbac_modes)
    /\ ag_no_cleanup \in BOOLEAN
    /\ ag_rc_ok = TRUE
    /\ ag_stdout = <<>>
    /\ ag_pak = NoPak
    /\ ag_raised = FALSE
    /\ ag_out = <<>>
    /\ ag_helm_log = <<>>
    \* a reused cluster may still hold what an earlier run left behind
    /\ ag_releases \in SUBSET {agent_release_name(ag_rbac_mode)}
    /\ ag_ret = FALSE
    /\ ag_result = "none"
    /\ ag_calls = <<>>
    /\ ag_roles = {}

\* Step 1: pak = create_agent_in_broker(...); if not pak: return False
AgentCreate ==
    /\ ag_pc = "create"
    /\ \E rc_ok \in BOOLEAN : \E stdout \in SeqsUpTo(StdoutAtoms, MaxStdoutLen) :
       \E issued \in IssuedPaks :
         LET r == create_agent_in_broker(rc_ok, stdout, issued)
         IN /\ ag_rc_ok' = rc_ok
            /\ ag_stdout' = stdout
            /\ ag_pak' = r.pak
            /\ ag_raised' = (r.kind = "raise")
            /\ ag_out' = ag_out \o r.lines
                 \o (IF r.kind = "none"
                     THEN << <<"Failed to create agent and get PAK">> >>
                     ELSE << >>)
            /\ ag_calls' = Append(ag_calls,
                 Call("create_agent_in_broker", agent_name_of(ag_rbac_mode),
                      <<>>, r.pak, r.kind = "pak"))
            /\ ag_pc' = IF r.kind = "pak" THEN "install" ELSE "finally"
    /\ ag_ret' = FALSE
    /\ UNCHANGED <<ag_rbac_mode, ag_no_cleanup, ag_helm_log, ag_releases,
                   ag_result, ag_roles, notAgVars>>

\* Step 2: install_success = helm_install(agent_chart_name,
\* agent_release_name, agent_values); cluster-wide requires it to succeed.
AgentInstall ==
    /\ ag_pc = "install"
    /\ LET release == agent_release_name(ag_rbac_mode)
       IN /\ ag_out' = ag_out \o HelmInstallOutput(agent_chart_name, release,
                                    agent_values(ag_rbac_mode, ag_pak))
          /\ \E ok \in BOOLEAN : \E left \in BOOLEAN :
               /\ ok => release \notin ag_releases
               /\ ok => left
               /\ left \/ release \notin ag_releases
               /\ ag_releases' =
                    IF left THEN ag_releases \cup {release} ELSE ag_releases
               \* the RBAC objects the rendered chart created
               /\ ag_roles' \in IF left THEN SUBSET RbacKinds ELSE {{}}
               /\ ag_calls' = Append(ag_calls,
                    Call("helm_install", release,
                         agent_values(ag_rbac_mode, ag_pak), NoPak, ok))
               /\ \E oks \in DiagnosticOutcomes :
                    ag_helm_log' =
                      LogAfterInstall(ag_helm_log, ag_releases, release, ok, oks)
               /\ IF ag_rbac_mode = "cluster-wide" /\ ~ok
                  THEN ag_pc' = "finally" /\ ag_ret' = FALSE
                  ELSE ag_pc' = "verify" /\ ag_ret' = ag_ret
    /\ UNCHANGED <<ag_rbac_mode, ag_no_cleanup, ag_rc_ok, ag_stdout, ag_pak,
                   ag_raised, ag_result, notAgVars>>

\* Step 3: cluster-wide waits for the pods (on failure broker diagnostics,
\* uninstall unless no_cleanup, False); namespace-scoped checks the Role;
\* disabled checks nothing.
AgentVerify ==
    /\ ag_pc = "verify"
    /\ LET release == agent_release_name(ag_rbac_mode)
       IN \E passed \in BOOLEAN :
            /\ ag_rbac_mode = "disabled" => passed
            /\ (ag_rbac_mode = "namespace-scoped" /\ passed) => "Role" \in ag_roles
            /\ ag_ret' = passed
            /\ ag_calls' = ag_calls \o
                 (IF ag_rbac_mode = "cluster-wide"
                  THEN << Call("wait_for_pods", release, <<>>, NoPak, passed) >>
                  ELSE IF ag_rbac_mode = "namespace-scoped"
                  THEN << Call("kubectl get role", release, <<>>, NoPak, passed) >>
                  ELSE << >>)
            /\ ag_out' = ag_out \o
                 << <<"Step 3: Verifying RBAC configuration">> >> \o
                 (IF ag_rbac_mode = "cluster-wide"
                  THEN IF passed
                       THEN << <<"Agent pods are ready and healthy">> >>
                       ELSE << <<"BROKER DIAGNOSTICS">> >>
                  ELSE IF ag_rbac_mode = "namespace-scoped"
                  THEN IF passed
                       THEN << <<"Namespace-scoped Role created correctly">> >>
                       ELSE << <<"Role was not created">> >>
                  ELSE << <<"RBAC resources correctly not created">> >>)
            /\ IF ag_rbac_mode = "cluster-wide" /\ ~passed /\ ~ag_no_cleanup
               THEN /\ ag_helm_log' = LogAfterUninstall(ag_helm_log, ag_releases, release)
                    /\ ag_releases' = ReleasesAfterUninstall(ag_releases, release)
                    /\ ag_roles' = {}
               ELSE /\ ag_helm_log' =
                         IF ag_rbac_mode = "namespace-scoped"
                         THEN Append(ag_helm_log,
                                     HelmCall("kubectl get role", release, FALSE, passed))
                         ELSE ag_helm_log
                    /\ ag_releases' = ag_releases
                    /\ ag_roles' = ag_roles
    /\ ag_pc' = "finally"
    /\ UNCHANGED <<ag_rbac_mode, ag_no_cleanup, ag_rc_ok, ag_stdout, ag_pak,
                   ag_raised, ag_result, notAgVars>>

\* finally: uninstall the agent release unless no_cleanup; then the pending
\* return completes, or the exception goes on.
AgentFinally ==
    /\ ag_pc = "finally"
    /\ LET release == agent_release_name(ag_rbac_mode)
       IN IF ~ag_no_cleanup
          THEN /\ ag_out' = Append(ag_out, <<"Cleaning up agent deployment: ", release>>)
               /\ ag_helm_log' = LogAfterUninstall(ag_helm_log, ag_releases, release)
               /\ ag_releases' = ReleasesAfterUninstall(ag_releases, release)
               /\ ag_roles' = {}
          ELSE UNCHANGED <<ag_out, ag_helm_log, ag_releases, ag_roles>>
    /\ ag_result' = IF ag_raised THEN "raised" ELSE ag_ret
    /\ ag_pc' = "done"
    /\ UNCHANGED <<ag_rbac_mode, ag_no_cleanup, ag_rc_ok, ag_stdout, ag_pak,
                   ag_raised, ag_ret, ag_calls, notAgVars>>

NextAgent ==
    \/ AgentCreate
    \/ AgentInstall
    \/ AgentVerify
    \/ AgentFinally

SpecAgent == InitAgent /\ [][NextAgent]_vars

(***************************************************************************)
(* Properties of the agent scenario.                                       *)
(***************************************************************************)
\* the line holds the whole of the credential
ContainsPak(line, pak) ==
    \E i \in 0..(Len(line) - Len(pak)) :
      \A j \in 1..Len(pak) : line[i + j] = pak[j]

\* C14: no printed line holds the complete PAK that agent creation
\* returned, neither during the creation nor during the install of the
\* agent chart that is given the PAK as broker.pak.
C14_PakNeverPrintedInFull ==
    ag_pak # NoPak =>
      \A i \in 1..Len(ag_out) : ~ContainsPak(ag_out[i], ag_pak)

\* stdout holds a JSON object, from its first "{" to its last "}", whose
\* initial_pak is a non-empty string
ObjectWithPak(stdout) ==
    \E i \in 1..Len(stdout) : \E j \in (i + 1)..Len(stdout) :
      /\ stdout[i] = "{" /\ \A k \in 1..(i - 1) : stdout[k] # "{"
      /\ stdout[j] = "}" /\ \A k \in (j + 1)..Len(stdout) : stdout[k] # "}"
      /\ \A k \in (i + 1)..(j - 1) : stdout[k] \in Members
      /\ \E k \in (i + 1)..(j - 1) :
           /\ stdout[k] = "pak:str"
           /\ \A m \in (k + 1)..(j - 1) : stdout[m] \notin PakMembers

AgentInstalled == \E i \in 1..Len(ag_helm_log) : ag_helm_log[i].cmd = "install"

\* C17: create_agent_in_broker yields a PAK only when the command
\* succeeded and its output holds a JSON object with a non-empty
\* initial_pak, so not when the output is no valid JSON or the object has
\* no initial_pak; after a creation that yielded none the scenario
\* installs no agent chart and returns False.
C17_AgentCreationFails ==
    ag_pc \notin {"idle", "create"} =>
      /\ ag_pak # NoPak => (ag_rc_ok /\ ObjectWithPak(ag_stdout))
      /\ (ag_pak = NoPak /\ ~ag_raised) =>
           /\ ~AgentInstalled
           /\ ag_pc \in {"finally", "done"}
           /\ ag_ret = FALSE
           /\ ag_pc = "done" => ag_result = FALSE

\* C17 witness: the command succeeded but what stands between the braces
\* is no JSON; the scenario ended with False and installed nothing.
C17_Witness ==
    /\ ag_pc = "done"
    /\ ag_rc_ok
    /\ ag_stdout = <<"{", "text", "}">>
    /\ ag_pak = NoPak
    /\ ~ag_raised
    /\ ag_result = FALSE
    /\ ~AgentInstalled

(***************************************************************************)
(* generate_project_name and its callers (task_helm.py 17-41), over one    *)
(* process lifetime.  uuid.uuid4() is a random draw; hex[:8] keeps its     *)
(* first eight digits.  A draw is the pair of those eight digits and the   *)
(* remaining ones.                                                         *)
(***************************************************************************)
MaxNameCalls == 4   \* calls of either function in one process

Uuid4s == ShortIds \X {"4e5f60718293a4b5c6d7e8f9", "4a5b6c7d8e9fa0b1c2d3e4f5"}

\* uuid.uuid4().hex[:8]
hex8(u) == u[1]

NameCalls == Len(nm_generated) + Len(nm_returned)

InitName ==
    /\ IdlePods
    /\ IdleWO
    /\ IdleBroker
    /\ IdleRun
    /\ IdleTier
    /\ IdleAgent
    /\ IdleActivate
    /\ IdleTenant
    /\ IdlePayload
    /\ IdleE2E
    /\ IdleValuesFile
    /\ IdleBrokerValues
    /\ IdleCatcher
    /\ IdleTool
    /\ nm_pc = "run"
    /\ nm_global = NoProject
    /\ nm_generated = <<>>
    /\ nm_returned = <<>>

\* generate_project_name() called by itself
GenerateProjectName ==
    /\ nm_pc = "run"
    /\ NameCalls < MaxNameCalls
    /\ \E u \in Uuid4s :
         nm_generated' =
           Append(nm_generated,
                  [uuid |-> u, name |-> generate_project_name(hex8(u)), by |-> "caller"])
    /\ UNCHANGED <<nm_pc, nm_global, nm_returned, notNmVars>>

\* the functions that ask get_project_name
NameCallers ==
    {"get_network_name", "get_volume_name", "docker_compose_cmd", "test_helm_chart"}

\* get_project_name(), asked by one of its callers
GetProjectName ==
    /\ nm_pc = "run"
    /\ NameCalls < MaxNameCalls
    /\ \E caller \in NameCallers : \E u \in Uuid4s :
         LET project == get_project_name(nm_global, hex8(u))
         IN /\ nm_global' = project
            /\ nm_generated' =
                 IF nm_global = NoProject
                 THEN Append(nm_generated,
                             [uuid |-> u, name |-> generate_project_name(hex8(u)),
                              by |-> "get_project_name"])
                 ELSE nm_generated
            /\ nm_returned' = Append(nm_returned, [caller |-> caller, name |-> project])
    /\ UNCHANGED <<nm_pc, notNmVars>>

NextName ==
    \/ GenerateProjectName
    \/ GetProjectName

SpecName == InitName /\ [][NextName]_vars

(***************************************************************************)
(* Properties of the environment identity.                                 *)
(***************************************************************************)
\* C15: any two identities generate_project_name produced in the process
\* are different.
C15_GeneratedNamesDiffer ==
    \A i \in 1..Len(nm_generated) : \A j \in 1..Len(nm_generated) :
      i # j => nm_generated[i].name # nm_generated[j].name

\* What does hold: two identities generate_project_name produced are equal
\* exactly when the first eight hex digits of their draws are; through
\* get_project_name the process generates at most once, and every caller
\* of get_project_name is given that one identity.
OneIdentityPerProcess ==
    /\ \A i \in 1..Len(nm_generated) : \A j \in 1..Len(nm_generated) :
         (nm_generated[i].name = nm_generated[j].name)
           <=> (hex8(nm_generated[i].uuid) = hex8(nm_generated[j].uuid))
    /\ Cardinality({i \in 1..Len(nm_generated) :
                      nm_generated[i].by = "get_project_name"}) <= 1
    /\ \A i \in 1..Len(nm_returned) :
         /\ nm_returned[i].name = nm_global
         /\ \E j \in 1..Len(nm_generated) :
              /\ nm_generated[j].by = "get_project_name"
              /\ nm_generated[j].name = nm_returned[i].name

\* two draws that differ gave the same identity, and two callers of
\* get_project_name were given one identity
CollidingDraws ==
    /\ \E i \in 1..Len(nm_generated) : \E j \in 1..Len(nm_generated) :
         /\ nm_generated[i].uuid # nm_generated[j].uuid
         /\ nm_generated[i].name = nm_generated[j].name
    /\ Len(nm_returned) >= 2
    /\ nm_returned[1].caller # nm_returned[2].caller

(***************************************************************************)
(* activate_agent (task_helm.py 1184-1242).  The stdout of the PUT command *)
(* is empty, text that is no JSON, a JSON object, or another JSON value    *)
(* (array, string, number, null), which json.loads parses as well.         *)
(***************************************************************************)
AgentIds == {"agent-1", "agent-2"}

BrokerPods == {"brokkr-broker-0", "brokkr-broker-1"}

\* the objects the PUT may be answered with
AgentObjects ==
    { [status |-> "ACTIVE"], [status |-> "INACTIVE"], [status |-> "active"],
      [status |-> PyNone], [id |-> "agent-1", status |-> "ACTIVE"],
      [id |-> "agent-1"], [error |-> "agent not found"] }

PutBodies ==
    {EmptyBody, TextBody}
      \cup {Body("object", o) : o \in AgentObjects}
      \cup {Body(k, EmptyObj) : k \in {"array", "string", "number", "null"}}

\* json.loads(result.stdout) raises JSONDecodeError
JsonDecodeError(body) == body.kind \in {"empty", "text"}

\* the parsed value is a dict, so that agent.get exists
IsDict(body) == body.kind = "object"

\* the part of activate_agent after the PUT command returned
activate_result(put) ==
    IF put.rc # 0 THEN "False"
    ELSE IF JsonDecodeError(put.body) THEN "False"
    ELSE IF ~IsDict(put.body) THEN "raised"
    ELSE IF PyGet(put.body.obj, "status", "UNKNOWN") = "ACTIVE" THEN "True"
    ELSE "False"

InitActivate ==
    /\ IdlePods
    /\ IdleWO
    /\ IdleBroker
    /\ IdleRun
    /\ IdleTier
    /\ IdleAgent
    /\ IdleName
    /\ IdleTenant
    /\ IdlePayload
    /\ IdleE2E
    /\ IdleValuesFile
    /\ IdleBrokerValues
    /\ IdleCatcher
    /\ IdleTool
    /\ aa_pc = "lookup"
    /\ aa_agent_id \in AgentIds
    /\ aa_lookup = <<>>
    /\ aa_put = <<>>
    /\ aa_cmds = <<>>
    /\ aa_result = "none"

\* get the broker pod name; return False if the command fails or prints
\* nothing
ActivateLookup ==
    /\ aa_pc = "lookup"
    /\ \E rc \in {0, 1} : \E stdout \in {""} \cup BrokerPods :
         /\ aa_lookup' = [rc |-> rc, stdout |-> stdout]
         /\ IF rc # 0 \/ stdout = ""
            THEN aa_pc' = "done" /\ aa_result' = "False"
            ELSE aa_pc' = "put" /\ aa_result' = aa_result
    /\ aa_cmds' = Append(aa_cmds, <<"kubectl get pods">>)
    /\ UNCHANGED <<aa_agent_id, aa_put, notAaVars>>

\* PUT {"status": "ACTIVE"} to /api/v1/agents/{agent_id} from the broker
\* pod; then parse the answer
ActivatePut ==
    /\ aa_pc = "put"
    /\ \E rc \in {0, 1} : \E body \in PutBodies :
         /\ aa_put' = CmdResult(rc, body)
         /\ aa_result' = activate_result(CmdResult(rc, body))
    /\ aa_cmds' = Append(aa_cmds,
                         <<"kubectl exec", aa_lookup.stdout, "curl -s -X PUT", aa_agent_id>>)
    /\ aa_pc' = "done"
    /\ UNCHANGED <<aa_agent_id, aa_lookup, notAaVars>>

NextActivate ==
    \/ ActivateLookup
    \/ ActivatePut

SpecActivate == InitActivate /\ [][NextActivate]_vars

(***************************************************************************)
(* Properties of activate_agent.                                           *)
(***************************************************************************)
PutDone == Len(aa_cmds) = 2

\* the PUT command succeeded, its answer parses as JSON and the answer's
\* status is "ACTIVE"
EchoedActive ==
    /\ PutDone
    /\ aa_put.rc = 0
    /\ aa_put.body.kind \notin {"empty", "text"}
    /\ aa_put.body.kind = "object"
    /\ "status" \in DOMAIN aa_put.body.obj
    /\ aa_put.body.obj.status = "ACTIVE"

\* C18: activate_agent returns True iff the PUT command succeeded, the
\* answer parses as JSON and its status is "ACTIVE"; in every other case
\* it returns False.
C18_TrueIffEchoedActive ==
    aa_pc = "done" =>
      /\ EchoedActive => aa_result = "True"
      /\ ~EchoedActive => aa_result = "False"

\* What does hold: the same, but an answer that is JSON and no object
\* makes activate_agent raise AttributeError instead of returning False.
ActivateOutcomes ==
    aa_pc = "done" =>
      /\ aa_result = "True" <=> EchoedActive
      /\ aa_result = "raised" <=>
           (PutDone /\ aa_put.rc = 0
              /\ aa_put.body.kind \in {"array", "string", "number", "null"})

(***************************************************************************)
(* test_broker_multi_tenant_schema (task_helm.py 587-762).                 *)
(***************************************************************************)
SHARED_DB == "shared-postgres"

broker_a_release == "broker-tenant-a"

broker_b_release == "broker-tenant-b"

\* values_a and values_b: the parts that tell the two releases apart
TenantValues(schema) ==
    [postgresql_enabled |-> "false",
     postgresql_external_host |-> SHARED_DB,
     postgresql_external_schema |-> schema]

values_a == TenantValues("tenant_a")

values_b == TenantValues("tenant_b")

\* service names follow the pattern {release-name}-brokkr-broker
ServiceOf(release) == release \o "-brokkr-broker"

\* the four validate_health_endpoint calls, in order
tenant_probes ==
    << [service |-> ServiceOf(broker_a_release), path |-> "/healthz"],
       [service |-> ServiceOf(broker_a_release), path |-> "/readyz"],
       [service |-> ServiceOf(broker_b_release), path |-> "/healthz"],
       [service |-> ServiceOf(broker_b_release), path |-> "/readyz"] >>

InitTenant ==
    /\ IdlePods
    /\ IdleWO
    /\ IdleBroker
    /\ IdleRun
    /\ IdleTier
    /\ IdleAgent
    /\ IdleName
    /\ IdleActivate
    /\ IdlePayload
    /\ IdleE2E
    /\ IdleValuesFile
    /\ IdleBrokerValues
    /\ IdleCatcher
    /\ IdleTool
    /\ mt_pc = "postgres"
    /\ mt_no_cleanup \in BOOLEAN
    \* a reused cluster may still hold what an earlier run left behind
    /\ mt_objects \in SUBSET {SHARED_DB}
    /\ mt_releases \in SUBSET {broker_a_release, broker_b_release}
    /\ mt_installs = <<>>
    /\ mt_ready = {}
    /\ mt_probes = <<>>
    /\ mt_health_passed = TRUE
    /\ mt_log = <<>>
    /\ mt_ret = FALSE
    /\ mt_result = "none"

\* kubectl apply of the shared PostgreSQL, then time.sleep(20)
TenantApplyPostgres ==
    /\ mt_pc = "postgres"
    /\ \E applied \in BOOLEAN :
         /\ mt_log' = Append(mt_log, HelmCall("kubectl apply", SHARED_DB,
                                              SHARED_DB \in mt_objects, applied))
         /\ IF applied
            THEN /\ mt_objects' = mt_objects \cup {SHARED_DB}
                 /\ mt_pc' = "schemas"
            ELSE /\ mt_objects' = mt_objects
                 /\ mt_pc' = "finally"
    /\ mt_ret' = FALSE
    /\ UNCHANGED <<mt_no_cleanup, mt_releases, mt_installs, mt_ready, mt_probes,
                   mt_health_passed, mt_result, notMtVars>>

\* CREATE SCHEMA IF NOT EXISTS tenant_a; ... tenant_b; in one psql command
TenantCreateSchemas ==
    /\ mt_pc = "schemas"
    /\ \E created \in BOOLEAN :
         /\ mt_log' = Append(mt_log, HelmCall("psql create schemas", SHARED_DB,
                                              FALSE, created))
         /\ IF created
            THEN /\ mt_objects' = mt_objects \cup {"tenant_a", "tenant_b"}
                 /\ mt_pc' = "install_a"
            ELSE /\ mt_objects' = mt_objects
                 /\ mt_pc' = "finally"
    /\ mt_ret' = FALSE
    /\ UNCHANGED <<mt_no_cleanup, mt_releases, mt_installs, mt_ready, mt_probes,
                   mt_health_passed, mt_result, notMtVars>>

\* helm_install(chart_name, release, values) of the scenario: the effect on
\* the releases, the record of the call and the commands logged
TenantInstall(release, values, ok, left, oks) ==
    /\ ok => release \notin mt_releases
    /\ ok => left
    /\ left \/ release \notin mt_releases
    /\ mt_releases' = IF left THEN mt_releases \cup {release} ELSE mt_releases
    /\ mt_installs' = Append(mt_installs,
                             [release |-> release, values |-> values, ok |-> ok])
    /\ mt_log' = LogAfterInstall(mt_log, mt_releases, release, ok, oks)

\* if not helm_install(chart_name, broker_a_release, values_a): return False
TenantInstallA ==
    /\ mt_pc = "install_a"
    /\ \E ok \in BOOLEAN : \E left \in BOOLEAN : \E oks \in DiagnosticOutcomes :
         /\ TenantInstall(broker_a_release, values_a, ok, left, oks)
         /\ mt_pc' = IF ok THEN "wait_a" ELSE "finally"
    /\ UNCHANGED <<mt_no_cleanup, mt_objects, mt_ready, mt_probes,
                   mt_health_passed, mt_ret, mt_result, notMtVars>>

\* if not wait_for_pods(broker_a_release): uninstall a unless no_cleanup
TenantWaitA ==
    /\ mt_pc = "wait_a"
    /\ \E ready \in BOOLEAN :
         IF ready
         THEN /\ mt_ready' = mt_ready \cup {broker_a_release}
              /\ mt_pc' = "install_b"
              /\ UNCHANGED <<mt_releases, mt_log>>
         ELSE /\ mt_ready' = mt_ready
              /\ mt_pc' = "finally"
              /\ IF ~mt_no_cleanup
                 THEN /\ mt_log' = LogAfterUninstall(mt_log, mt_releases, broker_a_release)
                      /\ mt_releases' = ReleasesAfterUninstall(mt_releases, broker_a_release)
                 ELSE UNCHANGED <<mt_releases, mt_log>>
    /\ UNCHANGED <<mt_no_cleanup, mt_objects, mt_installs, mt_probes,
                   mt_health_passed, mt_ret, mt_result, notMtVars>>

\* if not helm_install(chart_name, broker_b_release, values_b): uninstall a
\* unless no_cleanup
TenantInstallB ==
    /\ mt_pc = "install_b"
    /\ \E ok \in BOOLEAN : \E left \in BOOLEAN : \E oks \in DiagnosticOutcomes :
         /\ ok => broker_b_release \notin mt_releases
         /\ ok => left
         /\ left \/ broker_b_release \notin mt_releases
         /\ mt_installs' = Append(mt_installs,
              [release |-> broker_b_release, values |-> values_b, ok |-> ok])
         /\ LET installed == IF left THEN mt_releases \cup {broker_b_release}
                                     ELSE mt_releases
                log == LogAfterInstall(mt_log, mt_releases, broker_b_release, ok, oks)
            IN IF ok \/ mt_no_cleanup
               THEN mt_releases' = installed /\ mt_log' = log
               ELSE /\ mt_log' = LogAfterUninstall(log, installed, broker_a_release)
                    /\ mt_releases' = ReleasesAfterUninstall(installed, broker_a_release)
         /\ mt_pc' = IF ok THEN "wait_b" ELSE "finally"
    /\ UNCHANGED <<mt_no_cleanup, mt_objects, mt_ready, mt_probes,
                   mt_health_passed, mt_ret, mt_result, notMtVars>>

\* if not wait_for_pods(broker_b_release): uninstall a and b unless
\* no_cleanup; else health_passed = True
TenantWaitB ==
    /\ mt_pc = "wait_b"
    /\ \E ready \in BOOLEAN :
         IF ready
         THEN /\ mt_ready' = mt_ready \cup {broker_b_release}
              /\ mt_pc' = "probe"
              /\ UNCHANGED <<mt_releases, mt_log>>
         ELSE /\ mt_ready' = mt_ready
              /\ mt_pc' = "finally"
              /\ IF ~mt_no_cleanup
                 THEN /\ mt_log' =
                           LogAfterUninstall(
                             LogAfterUninstall(mt_log, mt_releases, broker_a_release),
                             ReleasesAfterUninstall(mt_releases, broker_a_release),
                             broker_b_release)
                      /\ mt_releases' =
                           ReleasesAfterUninstall(
                             ReleasesAfterUninstall(mt_releases, broker_a_release),
                             broker_b_release)
                 ELSE UNCHANGED <<mt_releases, mt_log>>
    /\ mt_health_passed' = TRUE
    /\ UNCHANGED <<mt_no_cleanup, mt_objects, mt_installs, mt_probes,
                   mt_ret, mt_result, notMtVars>>

\* health_passed &= validate_health_endpoint(service, 3000, path), for the
\* next of the four; after the fourth: return health_passed
TenantProbe ==
    /\ mt_pc = "probe"
    /\ LET p == tenant_probes[Len(mt_probes) + 1]
           last == Len(mt_probes) + 1 = Len(tenant_probes)
       IN \E returncode \in ProbeExitCodes :
            LET v == validate_health_endpoint(p.service, 3000, p.path, returncode)
                ok == v.success
            IN /\ mt_probes' = Append(mt_probes,
                    [service |-> p.service, path |-> p.path,
                     returncode |-> returncode, cmds |-> v.cmds, ok |-> ok])
               /\ mt_health_passed' = HealthAccumulate(mt_health_passed, ok)
               /\ mt_ret' = IF last THEN HealthAccumulate(mt_health_passed, ok)
                            ELSE mt_ret
            /\ mt_pc' = IF last THEN "finally" ELSE mt_pc
    /\ UNCHANGED <<mt_no_cleanup, mt_objects, mt_releases, mt_installs, mt_ready,
                   mt_log, mt_result, notMtVars>>

\* finally: unless no_cleanup uninstall a and b and delete the shared
\* PostgreSQL; then the pending return completes
TenantFinally ==
    /\ mt_pc = "finally"
    /\ IF ~mt_no_cleanup
       THEN /\ mt_log' =
                 Append(LogAfterUninstall(
                          LogAfterUninstall(mt_log, mt_releases, broker_a_release),
                          ReleasesAfterUninstall(mt_releases, broker_a_release),
                          broker_b_release),
                        HelmCall("kubectl delete deployment,service --ignore-not-found",
                                 SHARED_DB, SHARED_DB \in mt_objects, TRUE))
            /\ mt_releases' = mt_releases \ {broker_a_release, broker_b_release}
            /\ mt_objects' = {}
       ELSE UNCHANGED <<mt_log, mt_releases, mt_objects>>
    /\ mt_result' = mt_ret
    /\ mt_pc' = "done"
    /\ UNCHANGED <<mt_no_cleanup, mt_installs, mt_ready, mt_probes,
                   mt_health_passed, mt_ret, notMtVars>>

NextTenant ==
    \/ TenantApplyPostgres
    \/ TenantCreateSchemas
    \/ TenantInstallA
    \/ TenantWaitA
    \/ TenantInstallB
    \/ TenantWaitB
    \/ TenantProbe
    \/ TenantFinally

SpecTenant == InitTenant /\ [][NextTenant]_vars

(***************************************************************************)
(* Properties of the multi-tenant scenario.                                *)
(***************************************************************************)
\* a release was installed with success, on this schema of the shared
\* database, and found ready
TenantUp(release, schema) ==
    /\ \E i \in 1..Len(mt_installs) :
         /\ mt_installs[i].release = release
         /\ mt_installs[i].ok
         /\ mt_installs[i].values.postgresql_external_host = SHARED_DB
         /\ mt_installs[i].values.postgresql_external_schema = schema
    /\ release \in mt_ready

ProbePassed(release, path) ==
    \E i \in 1..Len(mt_probes) :
      /\ mt_probes[i].service = ServiceOf(release)
      /\ mt_probes[i].path = path
      /\ mt_probes[i].ok

\* C19: the scenario returns True only if two broker releases on the
\* schemas tenant_a and tenant_b of the shared database were installed and
\* found ready and /healthz and /readyz of each tenant's service passed; a
\* failed probe of either tenant makes the result False.
C19_MultiTenantPass ==
    mt_pc = "done" =>
      /\ mt_result = TRUE =>
           /\ TenantUp(broker_a_release, "tenant_a")
           /\ TenantUp(broker_b_release, "tenant_b")
           /\ broker_a_release # broker_b_release
           /\ \A r \in {broker_a_release, broker_b_release} :
                \A path \in {"/healthz", "/readyz"} : ProbePassed(r, path)
           /\ Len(mt_probes) = 4
      /\ (\E i \in 1..Len(mt_probes) : ~mt_probes[i].ok) => mt_result = FALSE

\* C19 witness: both tenants were ready, tenant a passed both probes and
\* only /healthz of tenant b failed; the scenario returned False.
C19_Witness ==
    /\ mt_pc = "done"
    /\ mt_result = FALSE
    /\ mt_ready = {broker_a_release, broker_b_release}
    /\ Len(mt_probes) = 4
    /\ mt_probes[1].ok /\ mt_probes[2].ok /\ ~mt_probes[3].ok /\ mt_probes[4].ok

(***************************************************************************)
(* The payload of create_work_order (task_helm.py 1249-1293).  A text is   *)
(* the sequence of its code points, an encoded text the sequence of its    *)
(* bytes, the base64 text a sequence of characters.                        *)
(***************************************************************************)
MaxYamlLen == 3     \* code points in yaml_content

\* the concatenation of the sequences ss[lo], ..., ss[hi]
RECURSIVE JoinRange(_, _, _)
JoinRange(ss, lo, hi) ==
    IF lo > hi THEN << >>
    ELSE IF lo = hi THEN ss[lo]
    ELSE LET mid == (lo + hi) \div 2
         IN JoinRange(ss, lo, mid) \o JoinRange(ss, mid + 1, hi)

\* "".join(ss)
Join(ss) == JoinRange(ss, 1, Len(ss))

\* a letter, the double quote, the newline, the backslash, the single
\* quote, e-acute and the euro sign
YamlChars == {97, 34, 10, 92, 39, 233, 8364}

\* '0'..'9', 'a'..'f'
HexDigit(d) == IF d < 10 THEN 48 + d ELSE 87 + d

\* json.dumps of one character of a str (ensure_ascii=True)
json_escape(c) ==
    IF c = 34 THEN <<92, 34>>
    ELSE IF c = 92 THEN <<92, 92>>
    ELSE IF c = 10 THEN <<92, 110>>
    ELSE IF c = 13 THEN <<92, 114>>
    ELSE IF c = 9 THEN <<92, 116>>
    ELSE IF c < 32 \/ c > 126
    THEN <<92, 117, HexDigit(c \div 4096), HexDigit((c \div 256) % 16),
           HexDigit((c \div 16) % 16), HexDigit(c % 16)>>
    ELSE <<c>>

\* {"work_type": "build", "yaml_content": "
PayloadHead ==
    << 123, 34, 119, 111, 114, 107, 95, 116, 121, 112, 101, 34, 58, 32,
       34, 98, 117, 105, 108, 100, 34, 44, 32, 34, 121, 97, 109, 108,
       95, 99, 111, 110, 116, 101, 110, 116, 34, 58, 32, 34 >>

\* ", "target_agent_ids": ["agent-1"], "max_retries": 0,
\* "claim_timeout_seconds": 300}
PayloadTail ==
    << 34, 44, 32, 34, 116, 97, 114, 103, 101, 116, 95, 97, 103, 101,
       110, 116, 95, 105, 100, 115, 34, 58, 32, 91, 34, 97, 103, 101,
       110, 116, 45, 49, 34, 93, 44, 32, 34, 109, 97, 120, 95, 114, 101,
       116, 114, 105, 101, 115, 34, 58, 32, 48, 44, 32, 34, 99, 108, 97,
       105, 109, 95, 116, 105, 109, 101, 111, 117, 116, 95, 115, 101,
       99, 111, 110, 100, 115, 34, 58, 32, 51, 48, 48, 125 >>

\* payload = json.dumps({...})
json_dumps(yaml_content) ==
    PayloadHead
      \o Join([i \in 1..Len(yaml_content) |-> json_escape(yaml_content[i])])
      \o PayloadTail

\* str.encode(): UTF-8
utf8(c) ==
    IF c < 128 THEN <<c>>
    ELSE IF c < 2048 THEN <<192 + (c \div 64), 128 + (c % 64)>>
    ELSE <<224 + (c \div 4096), 128 + ((c \div 64) % 64), 128 + (c % 64)>>

encode(text) == Join([i \in 1..Len(text) |-> utf8(text[i])])

B64Alphabet ==
    << "A", "B", "C", "D", "E", "F", "G", "H", "I", "J", "K", "L", "M",
       "N", "O", "P", "Q", "R", "S", "T", "U", "V", "W", "X", "Y", "Z",
       "a", "b", "c", "d", "e", "f", "g", "h", "i", "j", "k", "l", "m",
       "n", "o", "p", "q", "r", "s", "t", "u", "v", "w", "x", "y", "z",
       "0", "1", "2", "3", "4", "5", "6", "7", "8", "9", "+", "/" >>

B64Char(v) == B64Alphabet[v + 1]

B64Value(ch) == CHOOSE v \in 0..63 : B64Alphabet[v + 1] = ch

\* Mutant: the padding is left out.
b64encode_NoPad(bytes) ==
    LET n == Len(bytes)
        at(i) == IF i <= n THEN bytes[i] ELSE 0
        quad(g) ==
          LET b1 == at(3 * g - 2)
              b2 == at(3 * g - 1)
              b3 == at(3 * g)
          IN << B64Char(b1 \div 4), B64Char(((b1 % 4) * 16) + (b2 \div 16)) >>
               \o (IF 3 * g - 1 > n THEN << >>
                   ELSE << B64Char(((b2 % 16) * 4) + (b3 \div 64)) >>)
               \o (IF 3 * g > n THEN << >> ELSE << B64Char(b3 % 64) >>)
    IN Join([g \in 1..((n + 2) \div 3) |-> quad(g)])

\* base64.b64encode(bytes).decode()
b64encode(bytes) ==
    LET n == Len(bytes)
        at(i) == IF i <= n THEN bytes[i] ELSE 0
        quad(g) ==
          LET b1 == at(3 * g - 2)
              b2 == at(3 * g - 1)
              b3 == at(3 * g)
          IN << B64Char(b1 \div 4),
                B64Char(((b1 % 4) * 16) + (b2 \div 16)),
                IF 3 * g - 1 > n THEN "=" ELSE B64Char(((b2 % 16) * 4) + (b3 \div 64)),
                IF 3 * g > n THEN "=" ELSE B64Char(b3 % 64) >>
    IN Join([g \in 1..((n + 2) \div 3) |-> quad(g)])

\* what the shell of the pod leaves of an unquoted word before echo prints
\* it: quotes and backslashes are removed
ShellWord(word) == SelectSeq(word, LAMBDA ch : ch \notin {"'", "\"", "\\"})

\* echo word: the word and a newline
echo(word) == Append(ShellWord(word), "\n")

\* base64 -d: newlines are skipped, every four characters give up to three
\* bytes, characters after the last full four are invalid input
base64_d(text) ==
    LET t == SelectSeq(text, LAMBDA ch : ch # "\n")
        val(i) == IF t[i] = "=" THEN 0 ELSE B64Value(t[i])
        triple(g) ==
          LET v1 == val(4 * g - 3)
              v2 == val(4 * g - 2)
              v3 == val(4 * g - 1)
              v4 == val(4 * g)
          IN << (v1 * 4) + (v2 \div 16) >>
               \o (IF t[4 * g - 1] = "=" THEN << >>
                   ELSE << ((v2 % 16) * 16) + (v3 \div 4) >>)
               \o (IF t[4 * g] = "=" THEN << >>
                   ELSE << ((v3 % 4) * 64) + v4 >>)
    IN Join([g \in 1..(Len(t) \div 4) |-> triple(g)])

InitPayload ==
    /\ IdlePods
    /\ IdleWO
    /\ IdleBroker
    /\ IdleRun
    /\ IdleTier
    /\ IdleAgent
    /\ IdleName
    /\ IdleActivate
    /\ IdleTenant
    /\ IdleE2E
    /\ IdleValuesFile
    /\ IdleBrokerValues
    /\ IdleCatcher
    /\ IdleTool
    /\ pl_pc = "dumps"
    /\ pl_yaml_content \in SeqsUpTo(YamlChars, MaxYamlLen)
    /\ pl_payload = <<>>
    /\ pl_bytes = <<>>
    /\ pl_payload_b64 = <<>>
    /\ pl_decoded = <<>>

\* payload = json.dumps({...})
PayloadDumps ==
    /\ pl_pc = "dumps"
    /\ pl_payload' = json_dumps(pl_yaml_content)
    /\ pl_pc' = "encode"
    /\ UNCHANGED <<pl_yaml_content, pl_bytes, pl_payload_b64, pl_decoded, notPlVars>>

\* payload_b64 = base64.b64encode(payload.encode()).decode()
PayloadEncode ==
    /\ pl_pc = "encode"
    /\ pl_bytes' = encode(pl_payload)
    /\ pl_payload_b64' = b64encode(encode(pl_payload))
    /\ pl_pc' = "send"
    /\ UNCHANGED <<pl_yaml_content, pl_payload, pl_decoded, notPlVars>>

\* in the broker pod: echo {payload_b64} | base64 -d | curl ... -d @-
PayloadDecode ==
    /\ pl_pc = "send"
    /\ pl_decoded' = base64_d(echo(pl_payload_b64))
    /\ pl_pc' = "done"
    /\ UNCHANGED <<pl_yaml_content, pl_payload, pl_bytes, pl_payload_b64, notPlVars>>

NextPayload ==
    \/ PayloadDumps
    \/ PayloadEncode
    \/ PayloadDecode

SpecPayload == InitPayload /\ [][NextPayload]_vars

(***************************************************************************)
(* Properties of the payload transmission.                                 *)
(***************************************************************************)
\* C20: what base64 -d puts out in the pod is exactly the bytes of the
\* JSON payload that create_work_order encoded, for every yaml_content of
\* the bounded set, which has quotes, newlines and non-ASCII text.
C20_Base64RoundTrip ==
    pl_pc = "done" =>
      /\ pl_bytes = encode(json_dumps(pl_yaml_content))
      /\ pl_decoded = pl_bytes

\* C20 witness: a yaml_content of a double quote, a newline and e-acute
\* went through; its payload does not end on a three-byte boundary.
C20_Witness ==
    /\ pl_pc = "done"
    /\ pl_yaml_content = <<34, 10, 233>>
    /\ Len(pl_bytes) % 3 # 0
    /\ pl_decoded = pl_bytes

(***************************************************************************)
(* test_shipwright_e2e (task_helm.py): the end-to-end scenario.            *)
(*                                                                         *)
(* e2_steps records each workflow step the scenario calls: the function,   *)
(* the argument that identifies its subject, whether the returned value is *)
(* truthy, and how the step met its answer: "none" (nothing special),      *)
(* "malformed" (the broker API answered with text that is no JSON) or      *)
(* "raised" (an exception left the function).  e2_cmds records the         *)
(* commands the scenario runs besides the steps.                           *)
(***************************************************************************)
Step(step, arg, ok, err) == [step |-> step, arg |-> arg, ok |-> ok, err |-> err]

\* str(v) inside an f-string
PyStr(v) == IF v = PyNone THEN "None" ELSE v

e2e_agent_release_name == "brokkr-agent-shipwright-e2e"

e2e_agent_name == "shipwright-e2e-agent"

ADMIN_PAK ==
    << "b","r","o","k","k","r","_","B","R","3","r","V","s","D","a","_",
       "G","K","3","Q","N","7","C","D","U","z","Y","c","6","i","K","g",
       "M","k","J","9","8","M","2","W","S","i","m","M","5","t","6","U","8" >>

\* agent_values of test_shipwright_e2e, in insertion order
e2e_agent_values(broker_release_name, pak) ==
    << [k |-> "image.tag", v |-> <<"tag">>],
       [k |-> "image.repository", v |-> <<"registry/brokkr-agent">>],
       [k |-> "broker.url",
        v |-> <<"http://" \o PyStr(broker_release_name) \o ":3000">>],
       [k |-> "broker.agentName", v |-> <<e2e_agent_name>>],
       [k |-> "broker.clusterName", v |-> <<"shipwright-e2e-cluster">>],
       [k |-> "broker.pak", v |-> pak],
       [k |-> "rbac.create", v |-> <<"true">>],
       [k |-> "rbac.clusterWide", v |-> <<"true">>],
       [k |-> "shipwright.enabled", v |-> <<"true">>],
       [k |-> "shipwright.install.tekton", v |-> <<"true">>],
       [k |-> "shipwright.install.shipwright", v |-> <<"true">>],
       [k |-> "shipwright.install.sampleStrategies", v |-> <<"true">>] >>

\* values["key"]
ValueOf(values, key) ==
    values[CHOOSE i \in 1..Len(values) : values[i].k = key].v

\* the creation command succeeded and its output holds no JSON object that
\* json.loads accepts
MalformedCreation(rc_ok, stdout) ==
    LET json_start == find(stdout, "{")
        json_end == rfind(stdout, "}")
    IN /\ rc_ok
       /\ \/ ~(json_start >= 1 /\ json_end > json_start)
          \/ ~json_loads(SubSeq(stdout, json_start, json_end)).ok

\* the agents the list endpoint may hold
AgentEntries ==
    { [name |-> e2e_agent_name, id |-> "agent-1"],
      [name |-> "test-agent-cluster-wide", id |-> "agent-2"],
      [name |-> e2e_agent_name],
      [id |-> "agent-2"] }

\* the bodies GET /api/v1/agents may be answered with
AgentListBodies ==
    {EmptyBody, TextBody}
      \cup {Body("array", l) : l \in SeqsUpTo(AgentEntries, 2)}
      \cup {Body("object", o) : o \in {EmptyObj, [error |-> "unauthorized"]}}
      \cup {Body(k, EmptyObj) : k \in {"string", "number", "null"}}

\* the loop of get_agent_id_from_broker over a parsed list: the id of the
\* first agent of that name
FirstNamed(agents, agent_name) ==
    LET I == {i \in 1..Len(agents) : PyGet(agents[i], "name", PyNone) = agent_name}
    IN IF I = {} THEN PyNone
       ELSE PyGet(agents[CHOOSE i \in I : \A j \in I : i <= j], "id", PyNone)

\* get_agent_id_from_broker: kind "id" (returns agent_id), "none" (returns
\* None), "malformed" (JSONDecodeError caught, returns None) or "raise"
\* (iterating the parsed value, or agent.get on one of its items, fails)
get_agent_id_from_broker(pod_found, r, agent_name) ==
    IF ~pod_found THEN [kind |-> "none", id |-> PyNone]
    ELSE IF r.rc # 0 THEN [kind |-> "none", id |-> PyNone]
    ELSE IF JsonDecodeError(r.body) THEN [kind |-> "malformed", id |-> PyNone]
    ELSE IF r.body.kind = "array"
         THEN [kind |-> "id", id |-> FirstNamed(r.body.obj, agent_name)]
    ELSE IF r.body.kind = "object" /\ DOMAIN r.body.obj = {}
         THEN [kind |-> "id", id |-> PyNone]
    ELSE [kind |-> "raise", id |-> PyNone]

\* the bodies POST /api/v1/work-orders may be answered with
WorkOrderBodies ==
    {EmptyBody, TextBody}
      \cup {Body("object", o) :
              o \in {[id |-> "wo-1", status |-> "PENDING"],
                     [error |-> "bad request"], [id |-> ""]}}
      \cup {Body(k, EmptyObj) : k \in {"array", "string", "number", "null"}}

\* what wait_for_work_order_completion may return
CompletionOutcomes ==
    {TimeoutOutcome, NoPodOutcome}
      \cup {LogOutcome(CmdResult(0, Body("object", rec))) : rec \in LogRecords}

InitE2E ==
    /\ IdlePods
    /\ IdleWO
    /\ IdleBroker
    /\ IdleRun
    /\ IdleTier
    /\ IdleAgent
    /\ IdleName
    /\ IdleActivate
    /\ IdleTenant
    /\ IdlePayload
    /\ IdleValuesFile
    /\ IdleBrokerValues
    /\ IdleCatcher
    /\ IdleTool
    /\ e2_pc = "create"
    /\ e2_no_cleanup \in BOOLEAN
    \* run_legacy_tests passes None when the broker deployment failed
    /\ e2_broker \in {BROKER_FOR_AGENT_RELEASE, PyNone}
    /\ e2_steps = <<>>
    /\ e2_cmds = <<>>
    /\ e2_pak = NoPak
    /\ e2_agent_id = PyNone
    /\ e2_wo_id = PyNone
    \* a reused cluster may still hold what an earlier run left behind
    /\ e2_releases \in SUBSET {e2e_agent_release_name}
    /\ e2_raised = FALSE
    /\ e2_ret = "False"
    /\ e2_result = "none"

\* Step 1: pak = create_agent_in_broker(broker_release_name, agent_name,
\* "shipwright-e2e-cluster"); if not pak: return False
E2ECreateAgent ==
    /\ e2_pc = "create"
    /\ \E rc_ok \in BOOLEAN : \E stdout \in SeqsUpTo(StdoutAtoms, MaxStdoutLen) :
       \E issued \in IssuedPaks :
         LET r == create_agent_in_broker(rc_ok, stdout, issued)
         IN /\ e2_pak' = r.pak
            /\ e2_raised' = (r.kind = "raise")
            /\ e2_steps' = Append(e2_steps,
                 Step("create_agent_in_broker", e2e_agent_name, r.kind = "pak",
                      IF r.kind = "raise" THEN "raised"
                      ELSE IF MalformedCreation(rc_ok, stdout) THEN "malformed"
                      ELSE "none"))
            /\ e2_pc' = IF r.kind = "pak" THEN "install" ELSE "finally"
    /\ e2_ret' = "False"
    /\ UNCHANGED <<e2_no_cleanup, e2_broker, e2_cmds, e2_agent_id, e2_wo_id,
                   e2_releases, e2_result, notE2Vars>>

\* Step 2: install_success = helm_install(agent_chart_name,
\* agent_release_name, agent_values); if not install_success: return False
E2EInstall ==
    /\ e2_pc = "install"
    /\ \E ok \in BOOLEAN : \E left \in BOOLEAN :
         /\ ok => e2e_agent_release_name \notin e2_releases
         /\ ok => left
         /\ left \/ e2e_agent_release_name \notin e2_releases
         /\ e2_releases' = IF left THEN e2_releases \cup {e2e_agent_release_name}
                           ELSE e2_releases
         /\ e2_steps' = Append(e2_steps,
              Step("helm_install", e2e_agent_values(e2_broker, e2_pak), ok, "none"))
         /\ e2_pc' = IF ok THEN "wait" ELSE "finally"
    /\ e2_ret' = "False"
    /\ UNCHANGED <<e2_no_cleanup, e2_broker, e2_cmds, e2_pak, e2_agent_id,
                   e2_wo_id, e2_raised, e2_result, notE2Vars>>

\* if not wait_for_pods(agent_release_name): broker diagnostics when a
\* broker release is given, then return False
E2EWaitForPods ==
    /\ e2_pc = "wait"
    /\ \E ready \in BOOLEAN :
         /\ e2_steps' = Append(e2_steps,
              Step("wait_for_pods", e2e_agent_release_name, ready, "none"))
         /\ e2_cmds' = IF ~ready /\ e2_broker # PyNone
                       THEN Append(e2_cmds, "log_broker_diagnostics")
                       ELSE e2_cmds
         /\ e2_pc' = IF ready THEN "components" ELSE "finally"
    /\ e2_ret' = "False"
    /\ UNCHANGED <<e2_no_cleanup, e2_broker, e2_pak, e2_agent_id, e2_wo_id,
                   e2_releases, e2_raised, e2_result, notE2Vars>>

\* Step 3: wait for the Tekton and Shipwright deployments (results not
\* looked at), then up to 30 checks, 2 seconds apart, for the kaniko
\* ClusterBuildStrategy; without it list the strategies and return False
E2EWaitComponents ==
    /\ e2_pc = "components"
    /\ \E strategy_ready \in BOOLEAN :
         /\ e2_cmds' = e2_cmds \o
              <<"kubectl wait deployment -n tekton-pipelines",
                "kubectl wait deployment -n shipwright-build",
                "kubectl get clusterbuildstrategy kaniko">>
              \o (IF strategy_ready THEN <<>>
                  ELSE <<"kubectl get clusterbuildstrategy">>)
         /\ e2_pc' = IF strategy_ready THEN "locate" ELSE "finally"
    /\ e2_ret' = "False"
    /\ UNCHANGED <<e2_no_cleanup, e2_broker, e2_steps, e2_pak, e2_agent_id,
                   e2_wo_id, e2_releases, e2_raised, e2_result, notE2Vars>>

\* Step 4, first half: admin_pak = get_admin_pak_from_broker(...), which
\* returns ADMIN_PAK; agent_id = get_agent_id_from_broker(...);
\* if not agent_id: return False
E2ELocateAgent ==
    /\ e2_pc = "locate"
    /\ \E pod_found \in BOOLEAN : \E rc \in {0, 1} : \E body \in AgentListBodies :
         LET r == get_agent_id_from_broker(pod_found, CmdResult(rc, body),
                                           e2e_agent_name)
         IN /\ e2_agent_id' = r.id
            /\ e2_raised' = (r.kind = "raise")
            /\ e2_steps' = e2_steps \o
                 << Step("get_admin_pak_from_broker", ADMIN_PAK, TRUE, "none"),
                    Step("get_agent_id_from_broker", e2e_agent_name,
                         Truthy(r.id),
                         IF r.kind = "raise" THEN "raised"
                         ELSE IF r.kind = "malformed" THEN "malformed"
                         ELSE "none") >>
            /\ e2_pc' = IF Truthy(r.id) THEN "activate" ELSE "finally"
    /\ e2_ret' = "False"
    /\ UNCHANGED <<e2_no_cleanup, e2_broker, e2_cmds, e2_pak, e2_wo_id,
                   e2_releases, e2_result, notE2Vars>>

\* Mutant: the scenario goes on whatever activate_agent returned.
ActivationGate_Open(res) == TRUE

\* if not activate_agent(...): return False
ActivationGate(res) == res = "True"

\* Step 4, second half: if not activate_agent(broker_release_name,
\* admin_pak, agent_id): return False
E2EActivate ==
    /\ e2_pc = "activate"
    /\ \E pod_found \in BOOLEAN : \E rc \in {0, 1} : \E body \in PutBodies :
         LET res == IF pod_found THEN activate_result(CmdResult(rc, body))
                    ELSE "False"
         IN /\ e2_raised' = (res = "raised")
            /\ e2_steps' = Append(e2_steps,
                 Step("activate_agent", e2_agent_id, res = "True",
                      IF res = "raised" THEN "raised"
                      ELSE IF pod_found /\ rc = 0 /\ JsonDecodeError(body)
                      THEN "malformed"
                      ELSE "none"))
            /\ e2_pc' = IF ActivationGate(res) THEN "submit" ELSE "finally"
    /\ e2_ret' = "False"
    /\ UNCHANGED <<e2_no_cleanup, e2_broker, e2_cmds, e2_pak, e2_agent_id,
                   e2_wo_id, e2_releases, e2_result, notE2Vars>>

\* Step 5: work_order_id = create_work_order(broker_release_name, admin_pak,
\* agent_id, "build", build_yaml); if not work_order_id: return False
E2ECreateWorkOrder ==
    /\ e2_pc = "submit"
    /\ \E pod_found \in BOOLEAN : \E rc \in {0, 1} : \E body \in WorkOrderBodies :
         LET parsed == pod_found /\ rc = 0 /\ ~JsonDecodeError(body)
             raises == parsed /\ ~IsDict(body)
             work_order_id == IF pod_found /\ ~raises
                      THEN CreatedId(CmdResult(rc, body)) ELSE PyNone
         IN /\ e2_wo_id' = work_order_id
            /\ e2_raised' = raises
            /\ e2_steps' = Append(e2_steps,
                 Step("create_work_order", e2_agent_id, Truthy(work_order_id),
                      IF raises THEN "raised"
                      ELSE IF pod_found /\ rc = 0 /\ JsonDecodeError(body)
                      THEN "malformed"
                      ELSE "none"))
            /\ e2_pc' = IF Truthy(work_order_id) THEN "await" ELSE "finally"
    /\ e2_ret' = "False"
    /\ UNCHANGED <<e2_no_cleanup, e2_broker, e2_cmds, e2_pak, e2_agent_id,
                   e2_releases, e2_result, notE2Vars>>

\* Steps 6 and 7: sleep 15 seconds, list the build runs, success, message =
\* wait_for_work_order_completion(..., timeout=600), show the build runs;
\* return True if success, else show the agent logs and return False
E2EAwaitCompletion ==
    /\ e2_pc = "await"
    /\ \E outcome \in CompletionOutcomes :
         /\ e2_steps' = Append(e2_steps,
              Step("wait_for_work_order_completion", e2_wo_id, outcome[1], "none"))
         /\ e2_cmds' = e2_cmds \o
              <<"kubectl get buildruns -A", "kubectl get buildruns -A -o wide">>
              \o (IF outcome[1] THEN <<>> ELSE <<"kubectl logs --tail=50">>)
         /\ e2_ret' = IF outcome[1] THEN "True" ELSE "False"
    /\ e2_pc' = "finally"
    /\ UNCHANGED <<e2_no_cleanup, e2_broker, e2_pak, e2_agent_id, e2_wo_id,
                   e2_releases, e2_raised, e2_result, notE2Vars>>

\* finally: unless no_cleanup uninstall the agent release and delete the
\* builds and build runs; then the pending return completes, or the
\* exception goes on.
E2EFinally ==
    /\ e2_pc = "finally"
    /\ IF ~e2_no_cleanup
       THEN /\ e2_cmds' = e2_cmds \o
                 <<"helm uninstall " \o e2e_agent_release_name,
                   "kubectl delete build,buildrun --all">>
            /\ e2_releases' = ReleasesAfterUninstall(e2_releases, e2e_agent_release_name)
       ELSE UNCHANGED <<e2_cmds, e2_releases>>
    /\ e2_result' = IF e2_raised THEN "raised" ELSE e2_ret
    /\ e2_pc' = "done"
    /\ UNCHANGED <<e2_no_cleanup, e2_broker, e2_steps, e2_pak, e2_agent_id,
                   e2_wo_id, e2_raised, e2_ret, notE2Vars>>

NextE2E ==
    \/ E2ECreateAgent
    \/ E2EInstall
    \/ E2EWaitForPods
    \/ E2EWaitComponents
    \/ E2ELocateAgent
    \/ E2EActivate
    \/ E2ECreateWorkOrder
    \/ E2EAwaitCompletion
    \/ E2EFinally

SpecE2E == InitE2E /\ [][NextE2E]_vars

\* the scenario has ended after a workflow step met an answer of the broker
\* API that is no JSON
MetMalformed ==
    /\ e2_pc = "done"
    /\ \E i \in 1..Len(e2_steps) : e2_steps[i].err = "malformed"

\* C21: a malformed (non-JSON) answer of the broker API during a workflow
\* step (create agent, locate agent, activate, create work order) is a hard
\* failure: the scenario ends with an exception that unwinds to the cleanup
\* of the run instead of returning a boolean, while a scenario whose steps
\* only fail in the ordinary way returns a boolean.
C21_MalformedIsHardFailure ==
    e2_pc = "done" =>
      IF \E i \in 1..Len(e2_steps) : e2_steps[i].err = "malformed"
      THEN e2_result = "raised"
      ELSE IF \E i \in 1..Len(e2_steps) : e2_steps[i].err = "raised"
      THEN e2_result = "raised"
      ELSE e2_result \in {"True", "False"}

\* what the code does instead: the step that met the malformed answer
\* returned a falsy value and the scenario returned False
MalformedReturnsFalse ==
    MetMalformed =>
      /\ e2_result = "False"
      /\ ~e2_steps[Len(e2_steps)].ok
      /\ e2_steps[Len(e2_steps)].err = "malformed"

\* the workflow steps of the scenario, in the order of the code
E2EOrder ==
    << "create_agent_in_broker", "helm_install", "wait_for_pods",
       "get_admin_pak_from_broker", "get_agent_id_from_broker",
       "activate_agent", "create_work_order",
       "wait_for_work_order_completion" >>

\* the step of that name, if the scenario has called it
StepIndex(step) ==
    IF \E i \in 1..Len(e2_steps) : e2_steps[i].step = step
    THEN CHOOSE i \in 1..Len(e2_steps) : e2_steps[i].step = step
    ELSE 0

DisabledVerified ==
    /\ ag_rbac_mode = "disabled"
    /\ ag_pc = "finally"
    /\ \E i \in 1..Len(ag_calls) : ag_calls[i].fn = "helm_install"

\* C29: in the agent RBAC scenario with mode "disabled" the scenario
\* verifies the RBAC resource shape after the expected agent crash: it
\* returns True only if no Role or ClusterRole exists for the agent release,
\* and returns False when such a resource is found.
C29_DisabledVerifiesNoRbac ==
    DisabledVerified => (ag_ret <=> ag_roles = {})

\* what the code does instead: after the install no command looks at the
\* cluster, and the scenario returns True whatever the release created
DisabledReturnsTrue ==
    DisabledVerified =>
      /\ ag_ret
      /\ ag_calls[Len(ag_calls)].fn = "helm_install"

(***************************************************************************)
(* test_agent_with_values_file (task_helm.py).                             *)
(***************************************************************************)
values_files == <<"production", "development", "staging">>

vf_release_name(values_file_name) == "brokkr-agent-test-" \o values_file_name

vf_agent_name(values_file_name) == "test-agent-" \o values_file_name

\* Mutant: the override of broker.pak is empty.
vf_agent_values_NoPak(values_file_name, broker_release_name, pak) ==
    << [k |-> "broker.agentName", v |-> <<vf_agent_name(values_file_name)>>],
       [k |-> "broker.pak", v |-> <<>>] >>

\* agent_values of test_agent_with_values_file, in insertion order; helm
\* puts them after "-f <values file>", so that they override the file
vf_agent_values(values_file_name, broker_release_name, pak) ==
    << [k |-> "image.tag", v |-> <<"tag">>],
       [k |-> "image.repository", v |-> <<"registry/brokkr-agent">>],
       [k |-> "broker.url",
        v |-> <<"http://" \o PyStr(broker_release_name) \o ":3000">>],
       [k |-> "broker.agentName", v |-> <<vf_agent_name(values_file_name)>>],
       [k |-> "broker.clusterName", v |-> <<"test-cluster">>],
       [k |-> "broker.pak", v |-> pak],
       [k |-> "shipwright.enabled", v |-> <<"false">>] >>

InitValuesFile ==
    /\ IdlePods
    /\ IdleWO
    /\ IdleBroker
    /\ IdleRun
    /\ IdleTier
    /\ IdleAgent
    /\ IdleName
    /\ IdleActivate
    /\ IdleTenant
    /\ IdlePayload
    /\ IdleE2E
    /\ IdleBrokerValues
    /\ IdleCatcher
    /\ IdleTool
    /\ vf_pc = "create"
    /\ vf_no_cleanup \in BOOLEAN
    /\ vf_name \in SeqToSet(values_files)
    /\ vf_pak = NoPak
    /\ vf_calls = <<>>
    \* a reused cluster may still hold what an earlier run left behind
    /\ vf_releases \in SUBSET {vf_release_name(vf_name)}
    /\ vf_raised = FALSE
    /\ vf_ret = "False"
    /\ vf_result = "none"

\* pak = create_agent_in_broker(broker_release_name, agent_name,
\* "test-cluster"); if not pak: return False
ValuesFileCreateAgent ==
    /\ vf_pc = "create"
    /\ \E rc_ok \in BOOLEAN : \E stdout \in SeqsUpTo(StdoutAtoms, MaxStdoutLen) :
       \E issued \in IssuedPaks :
         LET r == create_agent_in_broker(rc_ok, stdout, issued)
         IN /\ vf_pak' = r.pak
            /\ vf_raised' = (r.kind = "raise")
            /\ vf_calls' = Append(vf_calls,
                 Call("create_agent_in_broker", vf_agent_name(vf_name),
                      <<>>, r.pak, r.kind = "pak"))
            /\ vf_pc' = IF r.kind = "pak" THEN "install" ELSE "finally"
    /\ vf_ret' = "False"
    /\ UNCHANGED <<vf_no_cleanup, vf_name, vf_releases, vf_result, notVfVars>>

\* install_success = helm_install(chart_name, release_name, agent_values,
\* values_file=values_file); if not install_success: return False
ValuesFileInstall ==
    /\ vf_pc = "install"
    /\ LET release == vf_release_name(vf_name)
       IN \E ok \in BOOLEAN : \E left \in BOOLEAN :
            /\ ok => release \notin vf_releases
            /\ ok => left
            /\ left \/ release \notin vf_releases
            /\ vf_releases' = IF left THEN vf_releases \cup {release}
                              ELSE vf_releases
            /\ vf_calls' = Append(vf_calls,
                 Call("helm_install", release,
                      vf_agent_values(vf_name, BROKER_FOR_AGENT_RELEASE, vf_pak),
                      NoPak, ok))
            /\ vf_pc' = IF ok THEN "wait" ELSE "finally"
    /\ vf_ret' = "False"
    /\ UNCHANGED <<vf_no_cleanup, vf_name, vf_pak, vf_raised, vf_result,
                   notVfVars>>

\* if not wait_for_pods(release_name): broker diagnostics, uninstall unless
\* no_cleanup, return False; else return True
ValuesFileWaitForPods ==
    /\ vf_pc = "wait"
    /\ LET release == vf_release_name(vf_name)
       IN \E ready \in BOOLEAN :
            /\ vf_calls' = Append(vf_calls,
                 Call("wait_for_pods", release, <<>>, NoPak, ready))
                 \o (IF ready THEN <<>>
                     ELSE << Call("log_broker_diagnostics",
                                  BROKER_FOR_AGENT_RELEASE, <<>>, NoPak, TRUE) >>
                          \o (IF vf_no_cleanup THEN <<>>
                              ELSE << Call("helm_uninstall", release, <<>>, NoPak,
                                           release \in vf_releases) >>))
            /\ vf_releases' = IF ~ready /\ ~vf_no_cleanup
                              THEN ReleasesAfterUninstall(vf_releases, release)
                              ELSE vf_releases
            /\ vf_ret' = IF ready THEN "True" ELSE "False"
    /\ vf_pc' = "finally"
    /\ UNCHANGED <<vf_no_cleanup, vf_name, vf_pak, vf_raised, vf_result,
                   notVfVars>>

\* finally: uninstall the release unless no_cleanup; then the pending
\* return completes, or the exception goes on.
ValuesFileFinally ==
    /\ vf_pc = "finally"
    /\ LET release == vf_release_name(vf_name)
       IN IF ~vf_no_cleanup
          THEN /\ vf_calls' = Append(vf_calls,
                    Call("helm_uninstall", release, <<>>, NoPak,
                         release \in vf_releases))
               /\ vf_releases' = ReleasesAfterUninstall(vf_releases, release)
          ELSE UNCHANGED <<vf_calls, vf_releases>>
    /\ vf_result' = IF vf_raised THEN "raised" ELSE vf_ret
    /\ vf_pc' = "done"
    /\ UNCHANGED <<vf_no_cleanup, vf_name, vf_pak, vf_raised, vf_ret, notVfVars>>

NextValuesFile ==
    \/ ValuesFileCreateAgent
    \/ ValuesFileInstall
    \/ ValuesFileWaitForPods
    \/ ValuesFileFinally

SpecValuesFile == InitValuesFile /\ [][NextValuesFile]_vars

(***************************************************************************)
(* The three scenarios that install the agent chart, each from its own     *)
(* initial state.                                                          *)
(***************************************************************************)
InitAgentInstalls == InitAgent \/ InitValuesFile \/ InitE2E

NextAgentInstalls == NextAgent \/ NextValuesFile \/ NextE2E

SpecAgentInstalls == InitAgentInstalls /\ [][NextAgentInstalls]_vars

\* every helm_install in a list of calls directly follows a
\* create_agent_in_broker that returned a PAK the broker issued, for the
\* agent name the install is given, and overrides broker.pak with that PAK
InstallsWithIssuedPak(calls) ==
    \A i \in 1..Len(calls) :
      calls[i].fn = "helm_install" =>
        /\ i > 1
        /\ calls[i - 1].fn = "create_agent_in_broker"
        /\ calls[i - 1].ok
        /\ calls[i - 1].pak \in IssuedPaks
        /\ ValueOf(calls[i].values, "broker.pak") = calls[i - 1].pak
        /\ ValueOf(calls[i].values, "broker.agentName") = <<calls[i - 1].name>>

\* C30: an agent chart is installed only with a credential obtained for
\* that agent: in test_agent_chart, test_agent_with_values_file and
\* test_shipwright_e2e, helm_install of the agent chart happens only after
\* create_agent_in_broker returned a non-empty PAK for the same agent name,
\* and the broker.pak override passed to the install is exactly that PAK.
C30_InstallOnlyWithIssuedPak ==
    /\ InstallsWithIssuedPak(ag_calls)
    /\ InstallsWithIssuedPak(vf_calls)
    /\ \A i \in 1..Len(e2_steps) :
         e2_steps[i].step = "helm_install" =>
           /\ i > 1
           /\ e2_steps[i - 1].step = "create_agent_in_broker"
           /\ e2_steps[i - 1].ok
           /\ e2_pak \in IssuedPaks
           /\ ValueOf(e2_steps[i].arg, "broker.pak") = e2_pak
           /\ ValueOf(e2_steps[i].arg, "broker.agentName") = <<e2_steps[i - 1].arg>>

\* the values-file scenario has installed the agent chart
C30_Witness ==
    /\ vf_pc = "wait"
    /\ vf_calls[Len(vf_calls)].fn = "helm_install"
    /\ vf_pak \in IssuedPaks

(***************************************************************************)
(* Further properties of test_helm_chart.                                  *)
(***************************************************************************)
\* docker compose up has been issued for the run's project
Provisioned(log) == \E i \in 1..Len(log) : log[i][1] = "up"

\* the docker commands issued after the (first) docker compose up
AfterUp(log) ==
    IF Provisioned(log)
    THEN SubSeq(log, (CHOOSE i \in 1..Len(log) :
                        log[i][1] = "up" /\ \A j \in 1..(i - 1) : log[j][1] # "up") + 1,
                Len(log))
    ELSE <<>>

\* C22: with no_cleanup no docker_down and no docker_clean is executed
\* after provisioning, neither when the run completes nor on the exception
\* path; without no_cleanup nothing is torn down before the tier's results
\* are aggregated, and in a run that ended after the tier returned the
\* teardown (docker_down, then docker_clean, once) is the last thing done
\* to the environment.
C22_RetainedIsNeverTornDown ==
    /\ run_no_cleanup =>
         /\ AfterUp(docker_log) = <<>>
         /\ \A i \in 1..Len(docker_log) : docker_log[i][1] # "down"
    /\ ~run_no_cleanup =>
         /\ run_pc \in {"build", "verify", "nodes", "tier", "report", "except"}
              => AfterUp(docker_log) = <<>>
         /\ (RunEnded /\ run_tier_ran /\ run_raised = "none") =>
              /\ AfterUp(docker_log) =
                   <<DockerCmd("down", PROJECT_NAME), DockerCmd("clean", PROJECT_NAME)>>
              /\ TornDown
              /\ run_exit = IF print_test_results(run_results) THEN 0 ELSE 1

\* a retained run whose scenario raised after the cluster had come up has
\* ended, and the project's containers are still there
C22_Witness ==
    /\ RunEnded
    /\ run_no_cleanup
    /\ run_tier_ran
    /\ run_raised = "OSError"
    /\ Provisioned(docker_log)
    /\ PROJECT_NAME \in docker.containers

(***************************************************************************)
(* Further properties of wait_for_pods.                                    *)
(***************************************************************************)
\* C24: within one poll tick terminal-failure detection takes precedence
\* over readiness: a tick whose snapshot has at least one pod with a
\* terminal waiting reason returns False, whatever the other pods are
\* (Running and Ready included), and before it returns the two diagnostic
\* commands are run, the pod status first and the tail of the pod
\* description second.
C24_TerminalBeforeReadiness ==
    [][TerminalTick =>
         /\ wp_pc' = "done"
         /\ wp_result' = FALSE
         /\ wp_diag' = wp_diag \o <<"get pods", "describe pods">>]_vars

\* a call returned False on a snapshot in which one pod is in a terminal
\* failure and every other pod is Running and Ready
C24_Witness ==
    /\ wp_pc = "done"
    /\ wp_result = FALSE
    /\ Len(wp_pods) > 1
    /\ HasTerminalPod(wp_pods)
    /\ \E i \in 1..Len(wp_pods) : PodReady(wp_pods[i])
    /\ \A i \in 1..Len(wp_pods) :
         PodReady(wp_pods[i]) \/ HasTerminalPod(<<wp_pods[i]>>)
    /\ wp_diag = <<"get pods", "describe pods">>

\* A tick whose query failed or matched no pod.
UnusableTick == wp_pc = "decide" /\ (wp_rc # 0 \/ wp_pods = <<>>)

\* C25: a poll tick whose status query fails or matches no pod is neither
\* success nor failure: the loop sleeps and polls again; the call never
\* returns True on a tick that matched no pod, and it returns False, at the
\* timeout, when no tick ever saw a pod.
C25_UnusableTickPollsAgain ==
    /\ [][UnusableTick =>
            /\ wp_pc' = "loop"
            /\ wp_elapsed' = wp_elapsed + POD_POLL_SLEEP
            /\ wp_ticks' = wp_ticks + 1
            /\ wp_diag' = wp_diag]_vars
    /\ [](wp_pc = "done" =>
            /\ wp_result = TRUE => (wp_rc = 0 /\ wp_pods # <<>>)
            /\ wp_seen \subseteq {"unusable"} =>
                 (wp_result = FALSE /\ wp_elapsed >= wp_timeout /\ wp_diag = <<>>))

\* the call timed out after several ticks, some with a failed query and
\* some that matched no pod
C25_Witness ==
    /\ wp_pc = "done"
    /\ wp_result = FALSE
    /\ wp_seen = {"unusable"}
    /\ wp_ticks >= 2
    /\ wp_elapsed >= wp_timeout

C23_OneProbePerCall ==
    \A i \in 1..Len(mt_probes) :
      /\ mt_probes[i].cmds = <<probe_cmd(mt_probes[i].service, 3000, mt_probes[i].path)>>
      /\ mt_probes[i].ok <=> (mt_probes[i].returncode = 0)

\* four calls, of which one failed on an HTTP error status and one because
\* the probe pod could not be run
C23_Witness ==
    /\ Len(mt_probes) = 4
    /\ \E i, j, k \in 1..4 :
         /\ mt_probes[i].returncode = 22 /\ ~mt_probes[i].ok
         /\ mt_probes[j].returncode = 1 /\ ~mt_probes[j].ok
         /\ mt_probes[k].returncode = 0 /\ mt_probes[k].ok

(***************************************************************************)
(* The three polling waits, each from its own initial state, with the      *)
(* process taking its next step as long as it has one (every external      *)
(* command returns).                                                       *)
(***************************************************************************)
InitWaits == InitPods \/ InitWO \/ InitRun

NextWaits == NextPods \/ NextWO \/ NextRun

\* a wait is blocked only inside an external command; each command is taken
\* to return, so a step that can be taken is taken
SpecWaits == InitWaits /\ [][NextWaits]_vars /\ WF_vars(NextWaits)

RECURSIVE SumSeq(_)
SumSeq(s) == IF s = <<>> THEN 0 ELSE Head(s) + SumSeq(Tail(s))

\* the ticks a wait has slept through are paid for in elapsed time, and the
\* last tick started before the timeout
TicksBounded ==
    /\ wp_ticks * POD_POLL_SLEEP <= wp_elapsed
    /\ wp_ticks >= 1 => (wp_ticks - 1) * POD_POLL_SLEEP < wp_timeout
    /\ wo_ticks * WO_POLL_SLEEP <= wo_elapsed
    /\ wo_ticks >= 1 => (wo_ticks - 1) * WO_POLL_SLEEP < wo_timeout
    /\ run_pc \in {"verify", "nodes", "except", "exit"} =>
         /\ Len(kc_sleeps) = kc_poll_idx
         /\ SumSeq(kc_sleeps) <= kc_elapsed
         /\ kc_poll_idx <= kc_elapsed
         /\ kc_probes <= kc_poll_idx + 1
         /\ kc_poll_idx >= 1 => kc_poll_idx - 1 < max_wait

\* a wait is under way
PodsWaiting == wp_pc \in {"loop", "decide"}
WoWaiting == wo_pc \in {"wait", "loop", "log"}
KcWaiting == run_pc = "verify"
WoPolling == wo_pc \in {"loop", "log"}
KcEnded == {"nodes", "except"}

\* half-ticks a wait has gone through: two per completed tick of the two
\* polling loops, one per probe of the credential wait
PodsSteps == 2 * wp_ticks + (IF wp_pc = "decide" THEN 1 ELSE 0)
WoSteps == 2 * wo_ticks + (IF wo_pc = "log" THEN 1 ELSE 0)
KcSteps == kc_probes

\* C26: every wait terminates.  wait_for_pods, wait_for_work_order_completion
\* and the credential wait of verify_kubectl_connectivity each return or
\* raise after a bounded number of poll ticks: a wait under way can always
\* take a step, every step either ends the wait or adds one to a count of
\* half-ticks, and that count is bounded by timeout and interval (every tick
\* slept through costs at least the interval, and a tick starts only before
\* the timeout).  None of them starts a new tick once the elapsed time has
\* reached its timeout.
C26_EveryWaitTerminates ==
    /\ []TicksBounded
    /\ []((PodsWaiting \/ WoWaiting \/ KcWaiting) => ENABLED NextWaits)
    /\ [][PodsWaiting => (wp_pc' = "done" \/ PodsSteps' = PodsSteps + 1)]_vars
    /\ [][WoPolling => (wo_pc' = "done" \/ WoSteps' = WoSteps + 1)]_vars
    /\ [][wo_pc = "wait" => wo_pc' \in {"loop", "done"}]_vars
    /\ [][KcWaiting => (run_pc' \in KcEnded \/ KcSteps' = KcSteps + 1)]_vars
    /\ [][(wp_pc = "loop" /\ wp_pc' = "decide") => wp_elapsed < wp_timeout]_vars
    /\ [][(wo_pc = "loop" /\ wo_pc' = "log") => wo_elapsed < wo_timeout]_vars
    /\ [][(KcWaiting /\ kc_probes' # kc_probes) => kc_elapsed < max_wait]_vars

\* the credential wait gave up after the last probe the budget allowed
C26_Witness ==
    /\ run_pc = "except"
    /\ run_raised = KC_TIMEOUT
    /\ kc_probes >= 2
    /\ kc_lastProbeStart < max_wait
    /\ kc_elapsed >= max_wait

(***************************************************************************)
(* The order of a run of test_helm_chart.                                  *)
(***************************************************************************)
\* component was built and pushed, both with return code 0, in that order
Published(log, component) ==
    \E i, j \in 1..Len(log) :
        /\ i < j
        /\ log[i] = <<"build", component, TRUE>>
        /\ log[j] = <<"push", component, TRUE>>

ImagesPublished(log) == \A k \in 1..Len(images) : Published(log, images[k])

BuildFailed(log) == \E i \in 1..Len(log) : ~log[i][3]

Downed(log) == \E i \in 1..Len(log) : log[i][1] = "down"

\* C33: a run goes provision, publish, verify, tier, teardown.  A build
\* command is issued only after docker compose up; the credential wait
\* starts only with both images built and pushed; the tier is reached only
\* from a successful kubectl get nodes, with the kubeconfig found and both
\* images published; after docker compose down nothing more is built, probed
\* or run.  When a build or push failed, no probe is made, no tier is run,
\* there are no results, and the run ends with status 1.
C33_RunOrder ==
    /\ [](/\ build_log # <<>> => Provisioned(docker_log)
          /\ (kc_probes > 0 \/ run_pc \in {"verify", "nodes", "tier", "report"})
               => ImagesPublished(build_log)
          /\ (run_pc \in {"tier", "report"} \/ run_tier_ran)
               => (kc_found /\ ImagesPublished(build_log))
          /\ run_pc \in {"build", "verify", "nodes", "tier", "report"}
               => ~Downed(docker_log)
          /\ BuildFailed(build_log) =>
               /\ run_pc \in {"exit", "except"}
               /\ kc_probes = 0
               /\ ~run_tier_ran
               /\ run_results = <<>>
               /\ RunEnded => run_exit = 1)
    /\ [][(run_pc' = "tier" /\ run_pc # "tier") => run_pc = "nodes"]_vars
    /\ [][(run_tier_ran' /\ ~run_tier_ran) => run_pc = "tier"]_vars
    /\ [][Downed(docker_log) =>
            /\ build_log' = build_log
            /\ kc_probes' = kc_probes
            /\ run_tier_ran' = run_tier_ran
            /\ run_pc' = "exit"]_vars

\* C33 witness: the agent image was built but its push failed; the run ended
\* with status 1 and never probed for the kubeconfig or ran a tier.
C33_Witness ==
    /\ RunEnded
    /\ Len(build_log) = 4
    /\ build_log[3] = <<"build", "agent", TRUE>>
    /\ build_log[4] = <<"push", "agent", FALSE>>
    /\ ~run_tier_ran
    /\ kc_probes = 0
    /\ run_exit = 1

\* ensure_k3s_running was called: its docker_clean is the first command
EnsureCalled == docker_log # <<>>

\* C34: teardown covers every exit path of a run.  When no_cleanup is false,
\* every end of test_helm_chart that comes after ensure_k3s_running was
\* called has docker_down and then docker_clean for the run's project as its
\* last docker commands, and the project's containers and volumes are gone.
C34_TeardownOnEveryExit ==
    (RunEnded /\ ~run_no_cleanup /\ EnsureCalled) => TornDown

\* What holds instead: the environment is torn down on every such exit but
\* the one taken when a build or push returned non-zero.
TeardownUnlessBuildFailed ==
    (RunEnded /\ ~run_no_cleanup /\ EnsureCalled)
      => (TornDown <=> ~(BuildFailed(build_log) /\ run_raised = "none"))

\* A run that was not to be retained ended on a failed agent push with the
\* cluster's containers still there.
BuildFailureLeavesCluster ==
    /\ RunEnded
    /\ ~run_no_cleanup
    /\ BuildFailed(build_log)
    /\ run_raised = "none"
    /\ PROJECT_NAME \in docker.containers
    /\ ~Downed(docker_log)

\* the kubeconfig came into existence strictly before max_wait had elapsed
AppearedInTime == kc_appear >= 0 /\ kc_appear < max_wait

\* C38: the credential wait succeeds whenever the credentials materialize
\* within the bound.  If the kubeconfig file appears strictly before max_wait
\* has elapsed and stays, verify_kubectl_connectivity does not raise the
\* timeout error.
C38_FoundWhenInTime ==
    AppearedInTime => run_raised # KC_TIMEOUT

\* What holds instead: the timeout is raised only when the file was not
\* there when the last probe was started.
TimeoutOnlyWhenLastProbeMissed ==
    run_raised = KC_TIMEOUT =>
        (kc_appear = -1 \/ kc_appear > kc_lastProbeStart)

\* The file appeared at second 28; the last probe had started at second 27,
\* the sleep of 5 seconds ran past max_wait and the wait raised.
LateKubeconfigMissed ==
    /\ run_raised = KC_TIMEOUT
    /\ kc_appear = 28
    /\ kc_lastProbeStart = 27
    /\ kc_probes = Len(poll_intervals)

(***************************************************************************)
(* The environment identity within one process.                            *)
(***************************************************************************)
InitIdentity == InitName \/ InitRun

NextIdentity == NextName \/ NextRun

SpecIdentity == InitIdentity /\ [][NextIdentity]_vars

\* C37: the environment identity is stable within a run.  Once
\* _PROJECT_NAME is set it never changes, so every caller of
\* get_project_name (get_network_name, get_volume_name, docker_compose_cmd,
\* test_helm_chart) is given the same name whatever uuid4 would draw; every
\* docker compose and docker volume command of a run names that project, only
\* that project has containers, and the project torn down is the one
\* ensure_k3s_running provisioned.
C37_StableIdentity ==
    /\ [][(nm_pc = "run" /\ nm_global # NoProject) => nm_global' = nm_global]_vars
    /\ [][(run_pc # "idle" /\ PROJECT_NAME # NoProject)
            => PROJECT_NAME' = PROJECT_NAME]_vars
    /\ [](/\ \A i \in 1..Len(nm_returned) : nm_returned[i].name = nm_returned[1].name
          /\ \A i \in 1..Len(docker_log) : docker_log[i][2] = PROJECT_NAME
          /\ docker.containers \subseteq {PROJECT_NAME}
          /\ Downed(docker_log) =>
               /\ docker_log[1] = DockerCmd("clean", PROJECT_NAME)
               /\ docker.containers = {})

\* C37 witness: a run provisioned a project, ran its tier and tore the same
\* project down, with get_project_name asked again at the teardown.
C37_Witness ==
    /\ RunEnded
    /\ run_tier_ran
    /\ Len(docker_log) = 4
    /\ docker_log[2] = DockerCmd("up", PROJECT_NAME)
    /\ docker_log[3] = DockerCmd("down", PROJECT_NAME)
    /\ TornDown

(***************************************************************************)
(* The Helm releases of a tier.                                            *)
(***************************************************************************)
\* release_name = f"brokkr-broker-test-{values_file_name}"
broker_vf_release_name(values_file_name) == "brokkr-broker-test-" \o values_file_name

\* the rbac_mode test_agent_chart is called with for a result name
RbacModesOf(name) ==
    IF name = "agent-deploy" THEN {"cluster-wide"}
    ELSE {m \in {"cluster-wide", "namespace-scoped", "disabled"} :
            name = "agent-rbac-" \o m}

ValuesFilesOf(prefix, name) ==
    {values_files[i] : i \in {k \in 1..Len(values_files) :
                                name = prefix \o values_files[k]}}

\* the Helm releases a step of a tier installs: the release_name each
\* function hands to helm_install
ReleasesOf(e) ==
    CASE e.fn = "deploy_test_broker" -> {BROKER_FOR_AGENT_RELEASE}
      [] e.fn = "test_broker_chart" -> {BROKER_RELEASE}
      [] e.fn = "test_broker_multi_tenant_schema" ->
           {broker_a_release, broker_b_release}
      [] e.fn = "test_broker_with_values_file" ->
           {broker_vf_release_name(v) : v \in ValuesFilesOf("broker-values-", e.name)}
      [] e.fn = "test_agent_chart" ->
           {agent_release_name(m) : m \in RbacModesOf(e.name)}
      [] e.fn = "test_agent_with_values_file" ->
           {vf_release_name(v) : v \in ValuesFilesOf("agent-values-", e.name)}
      [] e.fn = "test_shipwright_e2e" -> {e2e_agent_release_name}
      [] OTHER -> {}

\* the releases the steps taken so far install
TierInstalls ==
    UNION {ReleasesOf(tr_events[i]) :
             i \in {k \in 1..Len(tr_events) : InstallsChart(tr_events[k])}}

\* the releases the pre-cleanup uninstalled
PreCleaned ==
    {tr_events[i].name :
       i \in {k \in 1..Len(tr_events) : tr_events[k].kind = "pre-uninstall"}}

\* C36: the stale-release pre-cleanup of a tier covers the tier's own
\* releases.  Every release the smoke tier or the shipwright tier installs
\* is in the stale-release list uninstalled at the start of that tier.
C36_PreCleanupCoversTier ==
    tr_tier \in {"smoke", "shipwright"} => TierInstalls \subseteq PreCleaned

\* What holds instead: the smoke list covers the smoke tier; of the
\* shipwright tier only the release of test_shipwright_e2e is not covered.
PreCleanupCoversAllButE2E ==
    tr_tier \in {"smoke", "shipwright"} =>
        TierInstalls \ PreCleaned \subseteq {e2e_agent_release_name}

\* The shipwright tier ran test_shipwright_e2e, whose release its
\* pre-cleanup had not uninstalled.
E2EReleaseNotPreCleaned ==
    /\ tr_tier = "shipwright"
    /\ tr_pc = "done"
    /\ e2e_agent_release_name \in TierInstalls
    /\ e2e_agent_release_name \notin PreCleaned
    /\ "brokkr-agent-test-shipwright" \in PreCleaned

\* the no_cleanup a scenario is called with: run_smoke_tests passes True to
\* test_broker_chart and test_agent_chart, the other runners pass their own
ScenarioNoCleanup(e) ==
    IF e.name \in {"broker-deploy", "agent-deploy"} THEN TRUE ELSE tr_no_cleanup

Passed(name) == <<name, TRUE>> \in SeqToSet(tr_results)

\* The releases certainly installed after the first n steps.  An uninstall
\* removes its release.  deploy_test_broker leaves its release.  A scenario
\* called with no_cleanup false uninstalls its releases in its finally
\* clause; one called with no_cleanup true that returned True (its install
\* and its waits succeeded) leaves them installed.
RECURSIVE InstalledAfter(_, _)
InstalledAfter(events, n) ==
    IF n = 0 THEN {}
    ELSE LET prev == InstalledAfter(events, n - 1)
             e == events[n]
         IN CASE e.kind \in {"pre-uninstall", "uninstall"} -> prev \ {e.name}
              [] e.kind = "deploy" -> prev \cup ReleasesOf(e)
              [] e.kind = "scenario" ->
                   IF ~ScenarioNoCleanup(e) THEN prev \ ReleasesOf(e)
                   ELSE IF Passed(e.name) THEN prev \cup ReleasesOf(e)
                   ELSE prev
              [] OTHER -> prev

\* step n issues helm_install for a release that is still installed
Conflict(events, n) ==
    /\ InstallsChart(events[n])
    /\ ReleasesOf(events[n]) \cap InstalledAfter(events, n - 1) # {}

\* C35: no release-name conflict within a run.  For every tier and both
\* values of no_cleanup, helm_install is never issued for a release name
\* that is still installed from an earlier step of the same run.
C35_NoReleaseConflict ==
    \A n \in 1..Len(tr_events) : ~Conflict(tr_events, n)

\* What holds instead: there is no conflict in the smoke, full and
\* shipwright tiers and in the legacy agent tier, nor in any tier when
\* no_cleanup is false.
NoConflictUnlessLegacyBrokerRetained ==
    ~(tr_no_cleanup /\ tr_tier \in {"broker", "all"}) =>
        \A n \in 1..Len(tr_events) : ~Conflict(tr_events, n)

\* The legacy broker tier, called with no_cleanup true, passed the bundled
\* database scenario and then started the external database scenario with
\* brokkr-broker-test still installed.
LegacyBrokerReinstalled ==
    /\ tr_tier = "broker"
    /\ tr_no_cleanup
    /\ Len(tr_events) >= 2
    /\ tr_events[1] = Scenario("test_broker_chart", "broker-bundled-db", PyNone)
    /\ tr_events[2] = Scenario("test_broker_chart", "broker-external-db", PyNone)
    /\ Passed("broker-bundled-db")
    /\ Conflict(tr_events, 2)

(***************************************************************************)
(* The scenarios that call validate_health_endpoint.                       *)
(***************************************************************************)
InitHealth == InitBroker \/ InitTenant

NextHealth == NextBroker \/ NextTenant

SpecHealth == InitHealth /\ [][NextHealth]_vars

AllOk(probes) == \A i \in 1..Len(probes) : probes[i].ok

Paths(probes) == [i \in 1..Len(probes) |-> probes[i].path]

\* C32: health is probed only after readiness.  validate_health_endpoint is
\* called for a release only after wait_for_pods returned True for it; once
\* the probing has started every probe of the scenario is made, /healthz
\* then /readyz per release, whatever the earlier ones said; and the
\* scenario returns the conjunction of all verdicts.
C32_HealthAfterReady ==
    /\ \A i \in 1..Len(bc_probes) : bc_probes[i].service \in bc_ready
    /\ \A i \in 1..Len(mt_probes) :
         \E r \in mt_ready : mt_probes[i].service = ServiceOf(r)
    /\ bc_pc \in {"finally", "done"} =>
         /\ Len(bc_probes) \in {0, 2}
         /\ Len(bc_probes) = 2 =>
              /\ Paths(bc_probes) = <<"/healthz", "/readyz">>
              /\ bc_ret = AllOk(bc_probes)
              /\ bc_pc = "done" => bc_result = AllOk(bc_probes)
    /\ mt_pc \in {"finally", "done"} =>
         /\ Len(mt_probes) \in {0, 4}
         /\ Len(mt_probes) = 4 =>
              /\ mt_ready = {broker_a_release, broker_b_release}
              /\ Paths(mt_probes) = <<"/healthz", "/readyz", "/healthz", "/readyz">>
              /\ mt_ret = AllOk(mt_probes)
              /\ mt_pc = "done" => mt_result = AllOk(mt_probes)

\* C32 witness: the broker release was ready, /healthz failed, /readyz was
\* probed all the same and passed, and the scenario returned False.
C32_Witness ==
    /\ bc_pc = "done"
    /\ BROKER_RELEASE \in bc_ready
    /\ Len(bc_probes) = 2
    /\ ~bc_probes[1].ok
    /\ bc_probes[2].ok
    /\ bc_result = FALSE

(***************************************************************************)
(* test_broker_with_values_file (task_helm.py 829-883).                    *)
(***************************************************************************)
\* broker_values: the overrides given to helm after "-f <values file>"
broker_vf_values(values_file_name) ==
    << [k |-> "image.tag", v |-> <<"tag">>],
       [k |-> "image.repository", v |-> <<"registry/brokkr-broker">>] >> \o
    (IF values_file_name \in {"production", "staging"}
     THEN << [k |-> "postgresql.enabled", v |-> <<"true">>],
             [k |-> "postgresql.existingSecret", v |-> <<>>],
             [k |-> "postgresql.auth.password", v |-> <<"testpassword">>],
             [k |-> "tls.enabled", v |-> <<"false">>],
             [k |-> "ingress.enabled", v |-> <<"false">>] >>
     ELSE << >>)

\* Mutant: the finally clause never uninstalls.
FinallyUninstalls_Never(no_cleanup) == FALSE

\* finally: if not no_cleanup: helm_uninstall(release_name)
FinallyUninstalls(no_cleanup) == ~no_cleanup

InitBrokerValues ==
    /\ IdlePods
    /\ IdleWO
    /\ IdleBroker
    /\ IdleRun
    /\ IdleTier
    /\ IdleAgent
    /\ IdleName
    /\ IdleActivate
    /\ IdleTenant
    /\ IdlePayload
    /\ IdleE2E
    /\ IdleValuesFile
    /\ IdleCatcher
    /\ IdleTool
    /\ bv_pc = "install"
    /\ bv_no_cleanup \in BOOLEAN
    /\ bv_name \in {values_files[i] : i \in 1..Len(values_files)}
    /\ bv_calls = <<>>
    \* a reused cluster may still hold what an earlier run left behind
    /\ bv_releases \in SUBSET {broker_vf_release_name(bv_name)}
    /\ bv_ret = "False"
    /\ bv_result = "none"

\* install_success = helm_install(chart_name, release_name, broker_values,
\* values_file=values_file); if not install_success: return False
BrokerValuesInstall ==
    /\ bv_pc = "install"
    /\ LET release == broker_vf_release_name(bv_name)
       IN \E ok \in BOOLEAN : \E left \in BOOLEAN :
            /\ ok => release \notin bv_releases
            /\ ok => left
            /\ left \/ release \notin bv_releases
            /\ bv_releases' = IF left THEN bv_releases \cup {release}
                              ELSE bv_releases
            /\ bv_calls' = Append(bv_calls,
                 Call("helm_install", release, broker_vf_values(bv_name),
                      NoPak, ok))
            /\ bv_pc' = IF ok THEN "wait" ELSE "finally"
    /\ bv_ret' = "False"
    /\ UNCHANGED <<bv_no_cleanup, bv_name, bv_result, notBvVars>>

\* if not wait_for_pods(release_name): uninstall unless no_cleanup, return
\* False; else return True
BrokerValuesWaitForPods ==
    /\ bv_pc = "wait"
    /\ LET release == broker_vf_release_name(bv_name)
       IN \E ready \in BOOLEAN :
            /\ bv_calls' = Append(bv_calls,
                 Call("wait_for_pods", release, <<>>, NoPak, ready))
                 \o (IF ready \/ bv_no_cleanup THEN <<>>
                     ELSE << Call("helm_uninstall", release, <<>>, NoPak,
                                  release \in bv_releases) >>)
            /\ bv_releases' = IF ~ready /\ ~bv_no_cleanup
                              THEN ReleasesAfterUninstall(bv_releases, release)
                              ELSE bv_releases
            /\ bv_ret' = IF ready THEN "True" ELSE "False"
    /\ bv_pc' = "finally"
    /\ UNCHANGED <<bv_no_cleanup, bv_name, bv_result, notBvVars>>

\* finally: uninstall the release unless no_cleanup; then the pending
\* return completes.
BrokerValuesFinally ==
    /\ bv_pc = "finally"
    /\ LET release == broker_vf_release_name(bv_name)
       IN IF FinallyUninstalls(bv_no_cleanup)
          THEN /\ bv_calls' = Append(bv_calls,
                    Call("helm_uninstall", release, <<>>, NoPak,
                         release \in bv_releases))
               /\ bv_releases' = ReleasesAfterUninstall(bv_releases, release)
          ELSE UNCHANGED <<bv_calls, bv_releases>>
    /\ bv_result' = bv_ret
    /\ bv_pc' = "done"
    /\ UNCHANGED <<bv_no_cleanup, bv_name, bv_ret, notBvVars>>

NextBrokerValues ==
    \/ BrokerValuesInstall
    \/ BrokerValuesWaitForPods
    \/ BrokerValuesFinally

SpecBrokerValues == InitBrokerValues /\ [][NextBrokerValues]_vars

(***************************************************************************)
(* The six scenario functions, any one of them.                            *)
(***************************************************************************)
InitScenarios ==
    \/ InitBroker
    \/ InitTenant
    \/ InitAgent
    \/ InitBrokerValues
    \/ InitValuesFile
    \/ InitE2E

NextScenarios ==
    \/ NextBroker
    \/ NextTenant
    \/ NextAgent
    \/ NextBrokerValues
    \/ NextValuesFile
    \/ NextE2E

SpecScenarios == InitScenarios /\ [][NextScenarios]_vars

\* in a log of helm commands: every install of the release is followed by
\* an uninstall of it
HelmUninstalledAfter(log, release) ==
    \A i \in 1..Len(log) :
      (log[i].cmd = "install" /\ log[i].release = release) =>
        \E j \in (i + 1)..Len(log) :
          log[j].cmd = "uninstall" /\ log[j].release = release

HelmNoUninstall(log) == \A i \in 1..Len(log) : log[i].cmd # "uninstall"

\* the same on a log of the calls a scenario made
CallUninstalledAfter(calls, release) ==
    \A i \in 1..Len(calls) :
      (calls[i].fn = "helm_install" /\ calls[i].name = release) =>
        \E j \in (i + 1)..Len(calls) :
          calls[j].fn = "helm_uninstall" /\ calls[j].name = release

CallNoUninstall(calls) ==
    \A i \in 1..Len(calls) : calls[i].fn # "helm_uninstall"

E2EUninstallCmd == "helm uninstall " \o e2e_agent_release_name

E2EUninstallIssued == \E i \in 1..Len(e2_cmds) : e2_cmds[i] = E2EUninstallCmd

E2EInstallCalled ==
    \E i \in 1..Len(e2_steps) : e2_steps[i].step = "helm_install"

\* C31: scenario-level cleanup covers every exit path.  A scenario called
\* with no_cleanup false has, when it returns True, returns False or lets an
\* exception through, issued an uninstall after every install of each of its
\* releases; called with no_cleanup true it never issues an uninstall.
C31_CleanupOnEveryExit ==
    /\ (bc_pc = "done" /\ ~bc_no_cleanup) =>
         HelmUninstalledAfter(helm_log, BROKER_RELEASE)
    /\ (bc_pc # "idle" /\ bc_no_cleanup) => HelmNoUninstall(helm_log)
    /\ (mt_pc = "done" /\ ~mt_no_cleanup) =>
         /\ HelmUninstalledAfter(mt_log, broker_a_release)
         /\ HelmUninstalledAfter(mt_log, broker_b_release)
    /\ (mt_pc # "idle" /\ mt_no_cleanup) => HelmNoUninstall(mt_log)
    /\ (ag_pc = "done" /\ ~ag_no_cleanup) =>
         HelmUninstalledAfter(ag_helm_log, agent_release_name(ag_rbac_mode))
    /\ (ag_pc # "idle" /\ ag_no_cleanup) => HelmNoUninstall(ag_helm_log)
    /\ (bv_pc = "done" /\ ~bv_no_cleanup) =>
         CallUninstalledAfter(bv_calls, broker_vf_release_name(bv_name))
    /\ (bv_pc # "idle" /\ bv_no_cleanup) => CallNoUninstall(bv_calls)
    /\ (vf_pc = "done" /\ ~vf_no_cleanup) =>
         CallUninstalledAfter(vf_calls, vf_release_name(vf_name))
    /\ (vf_pc # "idle" /\ vf_no_cleanup) => CallNoUninstall(vf_calls)
    /\ (e2_pc = "done" /\ ~e2_no_cleanup /\ E2EInstallCalled) =>
         e2_cmds[Len(e2_cmds) - 1] = E2EUninstallCmd
    /\ (e2_pc # "idle" /\ e2_no_cleanup) => ~E2EUninstallIssued

\* C31 witness: the end-to-end scenario installed its release, an exception
\* then left the try block, and the release was uninstalled on the way out.
C31_Witness ==
    /\ e2_pc = "done"
    /\ e2_raised
    /\ ~e2_no_cleanup
    /\ E2EInstallCalled
    /\ E2EUninstallIssued

(***************************************************************************)
(* examples/webhook-catcher/main.py: the handlers that touch the message   *)
(* store.  HTTPServer handles one request at a time; the model lets        *)
(* several handler threads run at once (as under ThreadingHTTPServer), so  *)
(* that the serial executions are among its behaviours.  counter += 1 is a *)
(* load and a store.                                                       *)
(***************************************************************************)
MaxThreads == 2     \* handler threads running at once
MaxRequests == 4    \* requests accepted in one process lifetime
MaxKept == 1        \* messages the store keeps (1000 in main.py, scaled)

Threads == 1..MaxThreads

PostPaths == {"/webhook", "/receive"}

NoRequest == [method |-> "none", path |-> "none"]

Response(status, kind, val) == [status |-> status, kind |-> kind, val |-> val]

NoResponse == Response(0, "none", 0)

\* Mutant: the with statement does not wait for the lock.
LockFree_Always(holder) == TRUE

\* with lock: entered when no thread holds the lock
LockFree(holder) == holder = 0

\* if len(messages) > 1000: messages.pop(0)
Trimmed(msgs) == IF Len(msgs) > MaxKept THEN Tail(msgs) ELSE msgs

InitCatcher ==
    /\ IdlePods
    /\ IdleWO
    /\ IdleBroker
    /\ IdleRun
    /\ IdleTier
    /\ IdleAgent
    /\ IdleName
    /\ IdleActivate
    /\ IdleTenant
    /\ IdlePayload
    /\ IdleE2E
    /\ IdleValuesFile
    /\ IdleBrokerValues
    /\ IdleTool
    /\ messages = <<>>
    /\ counter = 0
    /\ lock = 0
    /\ wc_pc = [t \in Threads |-> "idle"]
    /\ wc_req = [t \in Threads |-> NoRequest]
    /\ wc_tmp = [t \in Threads |-> 0]
    /\ wc_msg = [t \in Threads |-> 0]
    /\ wc_assigned = <<>>
    /\ wc_started = 0
    /\ wc_resp = [t \in Threads |-> NoResponse]
    /\ wc_seen = 0

\* do_POST up to the with statement: any other path is answered 404
CatcherPost ==
    /\ wc_started < MaxRequests
    /\ \E t \in Threads : \E path \in PostPaths \cup {"/other"} :
         /\ wc_pc[t] = "idle"
         /\ IF path \in PostPaths
            THEN /\ wc_pc' = [wc_pc EXCEPT ![t] = "lock"]
                 /\ wc_req' = [wc_req EXCEPT ![t] = [method |-> "POST", path |-> path]]
                 /\ wc_resp' = [wc_resp EXCEPT ![t] = NoResponse]
            ELSE /\ wc_resp' = [wc_resp EXCEPT ![t] = Response(404, "error", 0)]
                 /\ UNCHANGED <<wc_pc, wc_req>>
    /\ wc_started' = wc_started + 1
    /\ UNCHANGED <<messages, counter, lock, wc_tmp, wc_msg, wc_assigned, wc_seen,
                   notWcVars>>

\* do_DELETE up to the with statement: any other path is answered 404
CatcherDelete ==
    /\ wc_started < MaxRequests
    /\ \E t \in Threads : \E path \in {"/messages", "/other"} :
         /\ wc_pc[t] = "idle"
         /\ IF path = "/messages"
            THEN /\ wc_pc' = [wc_pc EXCEPT ![t] = "lock"]
                 /\ wc_req' = [wc_req EXCEPT ![t] = [method |-> "DELETE", path |-> path]]
                 /\ wc_resp' = [wc_resp EXCEPT ![t] = NoResponse]
            ELSE /\ wc_resp' = [wc_resp EXCEPT ![t] = Response(404, "error", 0)]
                 /\ UNCHANGED <<wc_pc, wc_req>>
    /\ wc_started' = wc_started + 1
    /\ UNCHANGED <<messages, counter, lock, wc_tmp, wc_msg, wc_assigned, wc_seen,
                   notWcVars>>

\* do_GET /messages: with lock: send the count and a copy of the store
CatcherGetMessages ==
    /\ wc_started < MaxRequests
    /\ LockFree(lock)
    /\ \E t \in Threads :
         /\ wc_pc[t] = "idle"
         /\ wc_resp' = [wc_resp EXCEPT ![t] = Response(200, "count", Len(messages))]
    /\ wc_seen' = Len(messages)
    /\ wc_started' = wc_started + 1
    /\ UNCHANGED <<messages, counter, lock, wc_pc, wc_req, wc_tmp, wc_msg,
                   wc_assigned, notWcVars>>

\* with lock: (do_POST and do_DELETE)
CatcherAcquire ==
    /\ \E t \in Threads :
         /\ wc_pc[t] = "lock"
         /\ LockFree(lock)
         /\ lock' = t
         /\ wc_pc' = [wc_pc EXCEPT ![t] =
                        IF wc_req[t].method = "POST" THEN "load" ELSE "clear"]
    /\ UNCHANGED <<messages, counter, wc_req, wc_tmp, wc_msg, wc_assigned,
                   wc_started, wc_resp, wc_seen, notWcVars>>

\* counter += 1, the load
CatcherLoad ==
    /\ \E t \in Threads :
         /\ wc_pc[t] = "load"
         /\ wc_tmp' = [wc_tmp EXCEPT ![t] = counter]
         /\ wc_pc' = [wc_pc EXCEPT ![t] = "store"]
    /\ UNCHANGED <<messages, counter, lock, wc_req, wc_msg, wc_assigned,
                   wc_started, wc_resp, wc_seen, notWcVars>>

\* counter += 1, the store
CatcherStore ==
    /\ \E t \in Threads :
         /\ wc_pc[t] = "store"
         /\ counter' = wc_tmp[t] + 1
         /\ wc_pc' = [wc_pc EXCEPT ![t] = "msg"]
    /\ UNCHANGED <<messages, lock, wc_req, wc_tmp, wc_msg, wc_assigned,
                   wc_started, wc_resp, wc_seen, notWcVars>>

\* msg = {"id": counter, ...}
CatcherBuildMsg ==
    /\ \E t \in Threads :
         /\ wc_pc[t] = "msg"
         /\ wc_msg' = [wc_msg EXCEPT ![t] = counter]
         /\ wc_pc' = [wc_pc EXCEPT ![t] = "append"]
    /\ wc_assigned' = Append(wc_assigned, counter)
    /\ UNCHANGED <<messages, counter, lock, wc_req, wc_tmp, wc_started, wc_resp,
                   wc_seen, notWcVars>>

\* messages.append(msg)
CatcherAppend ==
    /\ \E t \in Threads :
         /\ wc_pc[t] = "append"
         /\ messages' = Append(messages, [id |-> wc_msg[t], path |-> wc_req[t].path])
         /\ wc_pc' = [wc_pc EXCEPT ![t] = "trim"]
    /\ UNCHANGED <<counter, lock, wc_req, wc_tmp, wc_msg, wc_assigned,
                   wc_started, wc_resp, wc_seen, notWcVars>>

\* if len(messages) > 1000: messages.pop(0); the with block ends
CatcherTrim ==
    /\ \E t \in Threads :
         /\ wc_pc[t] = "trim"
         /\ wc_pc' = [wc_pc EXCEPT ![t] = "respond"]
    /\ messages' = Trimmed(messages)
    /\ lock' = 0
    /\ UNCHANGED <<counter, wc_req, wc_tmp, wc_msg, wc_assigned, wc_started,
                   wc_resp, wc_seen, notWcVars>>

\* self.send_json(200, {"received": True, "id": msg["id"]})
CatcherRespond ==
    /\ \E t \in Threads :
         /\ wc_pc[t] = "respond"
         /\ wc_resp' = [wc_resp EXCEPT ![t] = Response(200, "received", wc_msg[t])]
         /\ wc_pc' = [wc_pc EXCEPT ![t] = "idle"]
         /\ wc_req' = [wc_req EXCEPT ![t] = NoRequest]
    /\ UNCHANGED <<messages, counter, lock, wc_tmp, wc_msg, wc_assigned,
                   wc_started, wc_seen, notWcVars>>

\* count = len(messages); messages.clear(); the with block ends;
\* self.send_json(200, {"cleared": count})
CatcherClear ==
    /\ \E t \in Threads :
         /\ wc_pc[t] = "clear"
         /\ wc_resp' = [wc_resp EXCEPT ![t] = Response(200, "cleared", Len(messages))]
         /\ wc_pc' = [wc_pc EXCEPT ![t] = "idle"]
         /\ wc_req' = [wc_req EXCEPT ![t] = NoRequest]
    /\ messages' = <<>>
    /\ lock' = 0
    /\ UNCHANGED <<counter, wc_tmp, wc_msg, wc_assigned, wc_started, wc_seen,
                   notWcVars>>

NextCatcher ==
    \/ CatcherPost
    \/ CatcherDelete
    \/ CatcherGetMessages
    \/ CatcherAcquire
    \/ CatcherLoad
    \/ CatcherStore
    \/ CatcherBuildMsg
    \/ CatcherAppend
    \/ CatcherTrim
    \/ CatcherRespond
    \/ CatcherClear

SpecCatcher == InitCatcher /\ [][NextCatcher]_vars

StrictlyIncreasing(ids) ==
    \A i \in 1..Len(ids) : \A j \in (i + 1)..Len(ids) : ids[i] < ids[j]

StoredIds(msgs) == [i \in 1..Len(msgs) |-> msgs[i].id]

Trimming == \E t \in Threads : wc_pc[t] = "trim"

\* C39: under any interleaving of POST /webhook, POST /receive and DELETE
\* /messages, each message gets an id strictly greater than every id given
\* before it, also after a clear, and the store holds no more than the
\* number of messages it keeps (one more only inside the with block, between
\* the append and the trim, where no reader can see it).
C39_IdsIncreaseStoreBounded ==
    /\ wc_pc # <<>> =>
         /\ StrictlyIncreasing(wc_assigned)
         /\ StrictlyIncreasing(StoredIds(messages))
         /\ Len(messages) <= MaxKept \/ (Trimming /\ Len(messages) = MaxKept + 1)
         /\ wc_seen <= MaxKept
         /\ \A t \in Threads :
              wc_resp[t].kind \in {"count", "cleared"} => wc_resp[t].val <= MaxKept

\* C39 witness: the store was full when it was cleared, an older message had
\* been dropped before that, and a message received after the clear has an
\* id beyond every earlier one.
C39_Witness ==
    /\ wc_pc # <<>>
    /\ \E t \in Threads :
         /\ wc_resp[t] = Response(200, "cleared", MaxKept)
         /\ Len(messages) = 1
         /\ messages[1].id = MaxKept + 2

(***************************************************************************)
(* tools/webhook-catcher/app.py: the views that touch received_messages,   *)
(* one request after the other.  Of a message the model keeps the id; the  *)
(* time stamp, event type and payload play no part in what is stored       *)
(* where.                                                                  *)
(***************************************************************************)
MAX_MESSAGES == 100

\* what request.get_json(force=True, silent=True) gives: a JSON object with
\* or without "event_type", None for an empty or malformed body, a
\* non-empty JSON array
ToolBodies == {"event", "object", "invalid", "array"}

\* payload = request.get_json(force=True, silent=True) or {}
ToolPayload(body) == IF body = "invalid" THEN "object" ELSE body

\* "id": len(received_messages) + 1
next_id(msgs) == Len(msgs) + 1

\* received_messages.insert(0, message); if len(received_messages) >
\* MAX_MESSAGES: received_messages.pop()
Inserted(msgs, message) ==
    LET all == <<message>> \o msgs
    IN IF Len(all) > MAX_MESSAGES THEN SubSeq(all, 1, Len(all) - 1) ELSE all

InitTool ==
    /\ IdlePods
    /\ IdleWO
    /\ IdleBroker
    /\ IdleRun
    /\ IdleTier
    /\ IdleAgent
    /\ IdleName
    /\ IdleActivate
    /\ IdleTenant
    /\ IdlePayload
    /\ IdleE2E
    /\ IdleValuesFile
    /\ IdleBrokerValues
    /\ IdleCatcher
    /\ received_messages = <<>>
    /\ wt_pc = "serving"
    /\ wt_resp = NoResponse

\* receive(): payload.get on a JSON array raises AttributeError (answered
\* 500, nothing stored); else the message is stored and its id returned
ToolReceive ==
    /\ wt_pc = "serving"
    /\ \E body \in ToolBodies :
         IF ToolPayload(body) = "array"
         THEN /\ wt_resp' = Response(500, "error", 0)
              /\ UNCHANGED received_messages
         ELSE LET message == [id |-> next_id(received_messages)]
              IN /\ received_messages' = Inserted(received_messages, message)
                 /\ wt_resp' = Response(200, "received", message.id)
    /\ UNCHANGED <<wt_pc, notWtVars>>

\* stats(): the count and the messages
ToolStats ==
    /\ wt_pc = "serving"
    /\ wt_resp' = Response(200, "count", Len(received_messages))
    /\ UNCHANGED <<received_messages, wt_pc, notWtVars>>

\* clear(): received_messages.clear()
ToolClear ==
    /\ wt_pc = "serving"
    /\ received_messages' = <<>>
    /\ wt_resp' = Response(200, "cleared", 0)
    /\ UNCHANGED <<wt_pc, notWtVars>>

NextTool ==
    \/ ToolReceive
    \/ ToolStats
    \/ ToolClear

SpecTool == InitTool /\ [][NextTool]_vars

DistinctIds(msgs) ==
    \A i \in 1..Len(msgs) : \A j \in (i + 1)..Len(msgs) : msgs[i].id # msgs[j].id

NewestFirst ==
    wt_resp.kind = "received" =>
      /\ received_messages # <<>>
      /\ received_messages[1].id = wt_resp.val

\* C40: after any sequence of /receive and /clear requests the stored
\* messages have pairwise distinct ids, the newest message is first in the
\* list, and the list holds no more than MAX_MESSAGES entries.
C40_DistinctNewestFirstBounded ==
    wt_pc = "serving" =>
      /\ DistinctIds(received_messages)
      /\ NewestFirst
      /\ Len(received_messages) <= MAX_MESSAGES

\* What holds: newest first, at most MAX_MESSAGES entries, and distinct ids
\* as long as the list is not full.
NewestFirstBoundedDistinctUntilFull ==
    wt_pc = "serving" =>
      /\ NewestFirst
      /\ Len(received_messages) <= MAX_MESSAGES
      /\ Len(received_messages) < MAX_MESSAGES => DistinctIds(received_messages)

\* Two messages received one after the other on a full list carry the same
\* id.
DuplicateIdStored ==
    /\ wt_pc = "serving"
    /\ Len(received_messages) = MAX_MESSAGES
    /\ received_messages[1].id = MAX_MESSAGES + 1
    /\ received_messages[2].id = MAX_MESSAGES + 1

====
